---- MODULE Spec2Model ----
(***************************************************************************)
(* Attendance verification and recording engine of the HR management       *)
(* system: the attendance controller (manual entry, exit), the attendance  *)
(* methods controller (QR scan, facial entry), the reports controller, the *)
(* store they share, and the init controller (initAdmin).                  *)
(*                                                                         *)
(* Units.  Instants are whole seconds since the model's epoch (local       *)
(* midnight of day 0); JavaScript's milliseconds are divided by 1000.      *)
(* Coordinates are integers in units of 1e-4 degree.  Face descriptor      *)
(* components are integers in units of 0.01.                               *)
(*                                                                         *)
(* Responses are the HTTP status and the first sentence of the message.    *)
(***************************************************************************)
EXTENDS Integers, Sequences, FiniteSets, TLC

VARIABLES
    records,    \* the attendance collection, in document-id order
    now,        \* the server clock, Date.now()
    inflight,   \* per connection: the request in flight, how far its handler
                \* got, its response and the notifications it dispatched
    probe,      \* the QR code issued, or the face descriptor enrolled, that the
                \* scans of SpecQr and SpecFace are made against
    employees   \* the documents initAdmin finds in, and adds to, the employees
                \* collection

vars == <<records, now, inflight, probe, employees>>

----------------------------------------------------------------------------
(* Bounds of the model *)

MaxRecords == 2
MaxEntryRecords == 1
MaxReportRecords == 2

----------------------------------------------------------------------------
(* Time *)

Hour == 60 * 60
Day == 24 * Hour
StartNow == 8 * Hour

\* Date.prototype.getHours(): the local hour of an instant
GetHours(t) == (t \div Hour) % 24

NoTime == -1

----------------------------------------------------------------------------
(* Configuration: the allowed area *)

allowedLocation == [lng |-> 88363, lat |-> 331245]
allowedRadius == 500
\* 111000 metres per degree is 111 metres per ten units of 1e-4 degree
MetresPerTenUnits == 111

Loc(dx, dy) == <<allowedLocation.lng + dx, allowedLocation.lat + dy>>
NoLocation == <<>>

\* parseInt(env) || fallback; env is <<>> when the variable is unset or no
\* number, else <<n>>
ParsedOr(env, fallback) == IF env = <<>> \/ env[1] = 0 THEN fallback ELSE env[1]

\* const allowedRadius as the process computed it at start-up: from
\* ALLOWED_RADIUS where a specification sets the environment, else the default
EffectiveRadius ==
    IF probe.kind = "geo" THEN ParsedOr(probe.radiusEnv, allowedRadius)
    ELSE allowedRadius

\* a comparison of the longitudes only
OutsideByLongitude(coordinates) ==
    LET dx == coordinates[1] - allowedLocation.lng
    IN  \/ EffectiveRadius < 0
        \/ (dx * dx) * MetresPerTenUnits * MetresPerTenUnits
               > (10 * EffectiveRadius) * (10 * EffectiveRadius)

\* distance > allowedRadius, with distance = sqrt(dx^2 + dy^2) * 111000:
\* both sides squared, in integers (a negative radius is below every distance)
OutsideAllowedArea(coordinates) ==
    LET dx == coordinates[1] - allowedLocation.lng
        dy == coordinates[2] - allowedLocation.lat
    IN  \/ EffectiveRadius < 0
        \/ (dx * dx + dy * dy) * MetresPerTenUnits * MetresPerTenUnits
               > (10 * EffectiveRadius) * (10 * EffectiveRadius)

----------------------------------------------------------------------------
(* The employee directory (read only for this subsystem) *)

DescriptorLen == 128

\* a descriptor that differs from the zero vector in its first two components
FaceVecOfLen(n, a, b) == [i \in 1..n |-> IF i = 1 THEN a ELSE IF i = 2 THEN b ELSE 0]
FaceVec(a, b) == FaceVecOfLen(DescriptorLen, a, b)

\* an optional value is a sequence of no or one element
None == <<>>
Some(x) == <<x>>

Directory ==
    [id \in {"e1", "e2", "a1"} |->
        [id |-> id,
         email |-> id \o "@corp",
         role |-> IF id = "a1" THEN "admin" ELSE "employee",
         faceDescriptor |-> IF id = "e1" THEN Some(FaceVec(0, 0)) ELSE None,
         hireDate |-> IF id = "e2" THEN None ELSE Some(Day)]]

\* the documents of the employees collection, in document-id order
DirectoryIds == <<"a1", "e1", "e2">>

\* db().collection(EMPLOYEES).doc(id).get(): the document, if it exists
EmployeeDoc(id) == IF id \in DOMAIN Directory THEN Some(Directory[id]) ELSE None

----------------------------------------------------------------------------
(* The attendance collection *)

NewAttendance(employeeId, entryTime, coordinates, method) ==
    [employeeId |-> employeeId, entryTime |-> entryTime, location |-> coordinates,
     method |-> method, exitTime |-> NoTime, exitLocation |-> NoLocation]

\* !doc.data().exitTime
IsOpen(r) == r.exitTime = NoTime

\* a query without its where clause: every document of the collection
OfAnyEmployee(recs, employeeId) == 1..Len(recs)

\* where("employeeId", "==", employeeId): the positions, in document-id order
ByEmployee(recs, employeeId) ==
    {i \in 1..Len(recs) : recs[i].employeeId = employeeId}

\* openAttendanceSnapshot.docs.some(doc => !doc.data().exitTime)
HasOpenAttendance(recs, employeeId) ==
    \E i \in ByEmployee(recs, employeeId) : IsOpen(recs[i])

\* the collection after add(): the new document gets a random id, so it may
\* land at any position k of the document-id order
InsertAt(recs, k, r) ==
    SubSeq(recs, 1, k - 1) \o <<r>> \o SubSeq(recs, k, Len(recs))

\* a conditional write: the document is added only while its employee has no
\* open attendance
AddedUnlessOpen(recs, k, r) ==
    IF HasOpenAttendance(recs, r.employeeId) THEN recs ELSE InsertAt(recs, k, r)

\* the collection after the add() of the handlers
AddedRecords(recs, k, r) == InsertAt(recs, k, r)

----------------------------------------------------------------------------
(* Notifications handed to sendEmailAndNotify(to, subject, text, meta) *)

NoMeta == [userId |-> "", type |-> ""]

Notification(to, subject, meta) == [to |-> to, subject |-> subject, meta |-> meta]

\* the late-arrival notice sent in place of the location notice
MislabelledLocationNotice(employee) ==
    Notification(employee.email, "Late Attendance Notification",
                 [userId |-> employee.id, type |-> "late_arrival"])

LocationNotice(employee) ==
    Notification(employee.email, "Unauthorized Location Attempt",
                 [userId |-> employee.id, type |-> "location_issue"])

LateNotice(employee) ==
    Notification(employee.email, "Late Attendance Notification",
                 [userId |-> employee.id, type |-> "late_arrival"])

ExpiredQrNotice(employee) ==
    Notification(employee.email, "Expired QR Code Attempt",
                 [userId |-> employee.id, type |-> "expired_qr"])

ExitNotice(employee) == Notification(employee.id, "Exit Recorded", NoMeta)

\* entryDate.getHours() > 9
LateNoticesAfterTen(employee, entryTime) ==
    IF GetHours(entryTime) > 9 THEN <<LateNotice(employee)>> ELSE <<>>

\* the late-arrival block of the three entry handlers
LateNotices(employee, entryTime) ==
    IF GetHours(entryTime) >= 9 THEN <<LateNotice(employee)>> ELSE <<>>

----------------------------------------------------------------------------
(* Outcomes of a handler: the response, the document to add (if any), the   *)
(* notifications dispatched                                                *)

Outcome(status, message, add, sent) ==
    [status |-> status, message |-> message, add |-> add, sent |-> sent]

Reject(status, message) == Outcome(status, message, None, <<>>)

ServerError(sent) == Outcome(500, "Server error", None, sent)

\* await sendEmailAndNotify(...) with no .catch(): a rejection of the
\* notifier's promise is thrown into the handler
AwaitedDispatchThrows(faults) == "notify" \in faults

\* sendEmailAndNotify(...).catch(log), not awaited: a rejection of the
\* notifier's promise ("notify" among the faults) is logged and nothing is
\* thrown into the handler
DispatchThrows(faults) == FALSE

\* an entry handler dispatches before add(): a dispatch that throws would take
\* it to its catch block with nothing added
EntryDispatch(out, faults) ==
    IF out.sent # <<>> /\ DispatchThrows(faults) THEN ServerError(out.sent) ELSE out

\* recordExit dispatches after update(): a dispatch that throws would take it
\* to its catch block with the update done
ExitDispatch(out, faults) ==
    IF out.sent # <<>> /\ DispatchThrows(faults)
    THEN [out EXCEPT !.status = 500, !.message = "Server error"]
    ELSE out

----------------------------------------------------------------------------
(* Request validation (express-validator chains) *)

Methods == {"manual", "qr", "facial"}

\* isArray({min: 2}) without its max
AtLeastTwoCoordinates(coordinates) == Len(coordinates) >= 2

\* isArray({min: 2, max: 2})
ValidCoordinates(coordinates) == Len(coordinates) = 2

ValidRecordAttendance(body) ==
    /\ body.employeeId # ""
    /\ body.entryTime # NoTime
    /\ ValidCoordinates(body.location)
    /\ body.method \in Methods

ValidExitAttendance(body) ==
    /\ body.employeeId # ""
    /\ body.exitTime # NoTime
    /\ ValidCoordinates(body.location)

----------------------------------------------------------------------------
(* recordAttendance: POST /attendance *)

\* a check that lets every employee through
AccessDeniedToOutsiders(user, employeeId) ==
    user.id # employeeId /\ user.role \notin {"admin", "employee"}

\* req.user.id !== employeeId && req.user.role !== "admin"
AccessDenied(user, employeeId) == user.id # employeeId /\ user.role # "admin"

\* from the location validation to the response; faults are the store calls
\* that throw for this request
EntryTail(employee, entryTime, coordinates, method, faults, okMessage) ==
    IF OutsideAllowedArea(coordinates)
    THEN EntryDispatch(Outcome(400, "Location outside allowed area", None,
                               <<LocationNotice(employee)>>), faults)
    ELSE LET sent == LateNotices(employee, entryTime)
         IN  IF sent # <<>> /\ DispatchThrows(faults) THEN ServerError(sent)
             ELSE IF "add" \in faults THEN ServerError(sent)
             ELSE Outcome(IF "getAdded" \in faults THEN 500 ELSE 201,
                          IF "getAdded" \in faults THEN "Server error" ELSE okMessage,
                          Some(NewAttendance(employee.id, entryTime, coordinates, method)),
                          sent)

\* the handler up to the open-attendance query: an outcome, or None to go on
RecordAttendanceHead(user, body, faults) ==
    IF ~ValidRecordAttendance(body) THEN Some(Reject(400, "Validation errors"))
    ELSE IF "getEmployee" \in faults THEN Some(ServerError(<<>>))
    ELSE IF EmployeeDoc(body.employeeId) = None THEN Some(Reject(404, "Employee not found"))
    ELSE IF AccessDenied(user, body.employeeId) THEN Some(Reject(403, "Access denied"))
    ELSE None

\* a handler that answers 500 when the open-attendance query throws
RecordAttendanceRestBlocking(body, hasOpenAttendance, faults) ==
    IF "openQuery" \in faults THEN ServerError(<<>>)
    ELSE IF hasOpenAttendance
    THEN Reject(400, "You already have an open attendance entry")
    ELSE EntryTail(Directory[body.employeeId], body.entryTime, body.location,
                   body.method, faults, "Attendance recorded successfully")

\* the handler from the result of the open-attendance query on
RecordAttendanceRest(body, hasOpenAttendance, faults) ==
    IF "openQuery" \notin faults /\ hasOpenAttendance
    THEN Reject(400, "You already have an open attendance entry")
    ELSE EntryTail(Directory[body.employeeId], body.entryTime, body.location,
                   body.method, faults, "Attendance recorded successfully")

RecordAttendanceResult(user, body, recs, faults) ==
    LET head == RecordAttendanceHead(user, body, faults)
    IN  IF head # None THEN head[1]
        ELSE RecordAttendanceRest(body, HasOpenAttendance(recs, body.employeeId), faults)

----------------------------------------------------------------------------
(* recordExit: POST /attendance/exit *)

WindowLen == 30 * Day

\* the order by entryTime ascending: a.entryTime - b.entryTime
OldestFirst(recs, i, j, idDescending) ==
    \/ recs[i].entryTime < recs[j].entryTime
    \/ /\ recs[i].entryTime = recs[j].entryTime
       /\ IF idDescending THEN i > j ELSE i < j

\* document i comes before document j when ordered by entryTime descending;
\* equal entry times keep the order the query returned them in
ComesBefore(recs, i, j, idDescending) ==
    \/ recs[i].entryTime > recs[j].entryTime
    \/ /\ recs[i].entryTime = recs[j].entryTime
       /\ IF idDescending THEN i > j ELSE i < j

RECURSIVE SortedDocs(_, _, _)
SortedDocs(recs, docs, idDescending) ==
    IF docs = {} THEN <<>>
    ELSE LET first == CHOOSE i \in docs :
                          \A j \in docs \ {i} : ComesBefore(recs, i, j, idDescending)
         IN  <<first>> \o SortedDocs(recs, docs \ {first}, idDescending)

\* the windowed query, ordered by entryTime descending (ties by document id,
\* descending too), and the in-memory sort that follows it
WindowedDocs(recs, employeeId, nowT) ==
    SortedDocs(recs,
               {i \in ByEmployee(recs, employeeId) :
                    /\ recs[i].entryTime >= nowT - WindowLen
                    /\ recs[i].entryTime <= nowT + WindowLen},
               TRUE)

\* the fallback query (by employee only, in document-id order) and the stable
\* in-memory sort by entryTime descending
FallbackDocs(recs, employeeId) ==
    SortedDocs(recs, ByEmployee(recs, employeeId), FALSE)

\* the loop without its test of exitTime
FirstDoc(recs, docs) == IF docs = <<>> THEN 0 ELSE docs[1]

\* the loop over docs: the first one without exitTime, 0 when there is none
FirstOpen(recs, docs) ==
    LET open == SelectSeq(docs, LAMBDA i : IsOpen(recs[i]))
    IN  IF open = <<>> THEN 0 ELSE open[1]

\* existingAttendanceId as recordExit finds it
ExistingAttendance(recs, employeeId, nowT, indexed) ==
    FirstOpen(recs, IF indexed THEN WindowedDocs(recs, employeeId, nowT)
                    ELSE FallbackDocs(recs, employeeId))

\* exitDateTime < entryDateTime
BeforeEntry(exitTime, entryTime) == exitTime < entryTime

\* exitDateTime <= entryDateTime
NotAfterEntry(exitTime, entryTime) == exitTime <= entryTime

ExitOutcome(status, message, update, sent) ==
    [status |-> status, message |-> message, update |-> update, sent |-> sent]

\* indexed: the composite index the windowed query needs exists
RecordExitResult(user, body, recs, nowT, indexed, faults) ==
    IF ~ValidExitAttendance(body) THEN ExitOutcome(400, "Validation failed", 0, <<>>)
    ELSE IF "getEmployee" \in faults THEN ExitOutcome(500, "Server error", 0, <<>>)
    ELSE IF EmployeeDoc(body.employeeId) = None
    THEN ExitOutcome(404, "Employee not found", 0, <<>>)
    ELSE IF "exitQuery" \in faults THEN ExitOutcome(500, "Server error", 0, <<>>)
    ELSE LET found == ExistingAttendance(recs, body.employeeId, nowT, indexed)
         IN  IF found = 0
             THEN ExitOutcome(400, "No entry attendance found for today", 0, <<>>)
             ELSE IF NotAfterEntry(body.exitTime, recs[found].entryTime)
             THEN ExitOutcome(400, "Exit time must be after entry time", 0, <<>>)
             ELSE IF "update" \in faults THEN ExitOutcome(500, "Server error", 0, <<>>)
             ELSE IF "getUpdated" \in faults
             THEN ExitOutcome(500, "Server error", found, <<>>)
             ELSE ExitDispatch(ExitOutcome(200, "Exit time recorded successfully", found,
                                           <<ExitNotice(Directory[body.employeeId])>>),
                               faults)

\* a conditional update: applied only while the document has no exitTime
UpdatedWhileOpen(recs, i, exitTime, coordinates) ==
    IF IsOpen(recs[i])
    THEN [recs EXCEPT ![i] = [@ EXCEPT !.exitTime = exitTime, !.exitLocation = coordinates]]
    ELSE recs

\* an update that leaves exitTime out
UpdatedLocationOnly(recs, i, exitTime, coordinates) ==
    [recs EXCEPT ![i] = [@ EXCEPT !.exitLocation = coordinates]]

\* an update that also writes the coordinates of the exit over the location of
\* the entry
UpdatedWithLocation(recs, i, exitTime, coordinates) ==
    [recs EXCEPT ![i] = [@ EXCEPT !.exitTime = exitTime, !.exitLocation = coordinates,
                                  !.location = coordinates]]

\* doc(existingAttendanceId).update({exitTime, exitLocation})
UpdatedRecords(recs, i, exitTime, coordinates) ==
    [recs EXCEPT ![i] = [@ EXCEPT !.exitTime = exitTime, !.exitLocation = coordinates]]

----------------------------------------------------------------------------
(* scanQrCode: POST /attendance/scan-qr *)

QrMaxAge == 5 * 60
QrLifetime == 12 * Hour

\* JSON.stringify({employeeId, timestamp, expiresAt}) of generateQrCode
GeneratedQr(employeeId, nowT) ==
    [kind |-> "object", employeeId |-> employeeId, timestamp |-> nowT,
     expiresAt |-> nowT + QrLifetime]

ValidScanQr(body) ==
    /\ body.qrData.kind # "empty"
    /\ body.entryTime # NoTime
    /\ ValidCoordinates(body.location)

\* Date.now() - timestamp >= 5 * 60 * 1000
QrExpiredAtMaxAge(nowT, timestamp) ==
    timestamp # NoTime /\ nowT - timestamp >= QrMaxAge

\* Date.now() - timestamp > 5 * 60 * 1000; with no timestamp in the payload
\* the difference is NaN and the comparison is false
QrExpired(nowT, timestamp) == timestamp # NoTime /\ nowT - timestamp > QrMaxAge

ScanQrCodeResult(user, body, nowT, faults) ==
    IF ~ValidScanQr(body) THEN Reject(400, "Validation errors")
    ELSE IF body.qrData.kind = "garbage" THEN Reject(400, "Invalid QR data format")
    ELSE IF body.qrData.kind = "null" THEN ServerError(<<>>)
    ELSE IF body.qrData.employeeId = "" THEN Reject(400, "Invalid employeeId in QR data")
    ELSE IF AccessDenied(user, body.qrData.employeeId) THEN Reject(403, "Access denied")
    ELSE IF "getEmployee" \in faults THEN ServerError(<<>>)
    ELSE IF EmployeeDoc(body.qrData.employeeId) = None
    THEN Reject(404, "Employee not found")
    ELSE IF QrExpired(nowT, body.qrData.timestamp)
    THEN EntryDispatch(Outcome(401, "Invalid or expired QR code", None,
                               <<ExpiredQrNotice(Directory[body.qrData.employeeId])>>),
                       faults)
    ELSE EntryTail(Directory[body.qrData.employeeId], body.entryTime, body.location,
                   "qr", faults, "QR code attendance recorded successfully")

----------------------------------------------------------------------------
(* facialAttendance: POST /attendance/facial *)

\* the threshold 0.6 in units of 0.01
FaceThreshold == 60

\* reduce((sum, val, i) => sum + Math.pow(val - descriptor2[i], 2), 0) over the
\* components lo..hi (summed by halves: integer addition is associative)
RECURSIVE SumSq(_, _, _, _)
SumSq(d1, d2, lo, hi) ==
    IF lo > hi THEN 0
    ELSE IF lo = hi THEN (d1[lo] - d2[lo]) * (d1[lo] - d2[lo])
    ELSE LET mid == (lo + hi) \div 2
         IN  SumSq(d1, d2, lo, mid) + SumSq(d1, d2, mid + 1, hi)

\* calculateDistance: Infinity when the lengths differ, else the Euclidean
\* distance, kept as its square
CalculateDistance(descriptor1, descriptor2) ==
    IF Len(descriptor1) # Len(descriptor2)
    THEN [infinite |-> TRUE, sq |-> 0]
    ELSE [infinite |-> FALSE, sq |-> SumSq(descriptor1, descriptor2, 1, Len(descriptor1))]

\* distance > 0.6
AboveThreshold(distance) ==
    distance.infinite \/ distance.sq > FaceThreshold * FaceThreshold

\* distance >= 0.6
NotRecognized(distance) ==
    distance.infinite \/ distance.sq >= FaceThreshold * FaceThreshold

\* a power of two, n or more, whose square is v or more
RECURSIVE RootBound(_, _)
RootBound(v, n) == IF n * n >= v THEN n ELSE RootBound(v, 2 * n)

\* the integer nearest to the square root of v, found between lo and hi
RECURSIVE NearestRoot(_, _, _)
NearestRoot(v, lo, hi) ==
    IF lo = hi THEN lo
    ELSE LET mid == (lo + hi) \div 2
         IN  IF 4 * v <= (2 * mid + 1) * (2 * mid + 1)
             THEN NearestRoot(v, lo, mid) ELSE NearestRoot(v, mid + 1, hi)

\* (100 - distance * 100).toFixed(1), in tenths of a percent; -Infinity for
\* an infinite distance
Confidence(distance) ==
    IF distance.infinite THEN [negInfinity |-> TRUE, tenths |-> 0]
    ELSE [negInfinity |-> FALSE,
          tenths |-> 1000 - NearestRoot(100 * distance.sq, 0,
                                         RootBound(100 * distance.sq, 1))]

ValidFacialAttendance(body) ==
    /\ body.employeeId # ""
    /\ Len(body.faceTemplate) = DescriptorLen
    /\ body.entryTime # NoTime
    /\ ValidCoordinates(body.location)

\* employeeDoc: what the read of the employee document returned
FacialAttendanceResult(user, body, employeeDoc, faults) ==
    IF ~ValidFacialAttendance(body) THEN Reject(400, "Validation errors")
    ELSE IF "getEmployee" \in faults THEN ServerError(<<>>)
    ELSE IF employeeDoc = None THEN Reject(404, "Employee not found")
    ELSE IF employeeDoc[1].faceDescriptor = None THEN Reject(400, "Face not registered")
    ELSE IF NotRecognized(CalculateDistance(body.faceTemplate,
                                            employeeDoc[1].faceDescriptor[1]))
    THEN Reject(400, "Face not recognized")
    ELSE IF AccessDenied(user, body.employeeId) THEN Reject(403, "Access denied")
    ELSE EntryTail(employeeDoc[1], body.entryTime, body.location, "facial", faults,
                   "Facial attendance recorded successfully")

----------------------------------------------------------------------------
(* Dates.  Day 0 of the model is 1 January of a common year, in the          *)
(* server's time zone; utcOffset is local time minus UTC, in seconds.        *)

MonthLengths == <<31, 28, 31, 30>>

RECURSIVE DaysBefore(_)
DaysBefore(month) ==
    IF month <= 1 THEN 0 ELSE DaysBefore(month - 1) + MonthLengths[month - 1]

\* the calendar date of a day number
DateOfDay(n) ==
    LET month == CHOOSE m \in 1..Len(MonthLengths) :
                     DaysBefore(m) <= n /\ n < DaysBefore(m) + MonthLengths[m]
    IN  [month |-> month, day |-> n - DaysBefore(month) + 1]

DayOfDate(date) == DaysBefore(date.month) + date.day - 1

\* new Date("YYYY-MM-DD"): midnight UTC of that date
ParseDate(date, utcOffset) == DayOfDate(date) * Day + utcOffset

\* d.setHours(0, 0, 0, 0): local midnight of the local day of d
SetHoursZero(t) == (t \div Day) * Day

\* d.getDate(), d.getMonth() + 1: local day of the month, local month
GetDate(t) == DateOfDay(t \div Day).day
GetMonth(t) == DateOfDay(t \div Day).month

\* d.setDate(n): day n counted from the first of d's local month, running
\* over into the next months; the time of day is kept
SetDate(t, n) == (DaysBefore(GetMonth(t)) + n - 1) * Day + (t % Day)

\* d.setMonth(m), for a d on the first of its month
SetMonth(t, month) == DaysBefore(month) * Day + (t % Day)

\* d.toISOString().split("T")[0]: the date of d in UTC
ToISODate(t, utcOffset) == DateOfDay((t - utcOffset) \div Day)

----------------------------------------------------------------------------
(* getPresenceReport: GET /attendance/report/:employeeId, and                *)
(* getAllPresenceReports: GET /attendance/reports                           *)

Periods == {"daily", "weekly", "monthly"}

\* validateReport; startDate and endDate are None or Some(date)
ValidReport(params) ==
    /\ params.employeeId # ""
    /\ params.period \in Periods
    /\ params.startDate # None

Window(start, end) == Some([start |-> start, end |-> end])

\* let start, end of getPresenceReport
ReportWindow(params, utcOffset) ==
    IF params.period = "weekly"
    THEN LET start == SetHoursZero(ParseDate(params.startDate[1], utcOffset))
         IN  Window(start, SetDate(start, GetDate(start) + 7))
    ELSE IF params.period = "monthly"
    THEN LET start == SetDate(SetHoursZero(ParseDate(params.startDate[1], utcOffset)), 1)
         IN  Window(start, SetMonth(start, GetMonth(start) + 1))
    ELSE IF params.startDate # None /\ params.endDate # None
    THEN Window(ParseDate(params.startDate[1], utcOffset),
                ParseDate(params.endDate[1], utcOffset))
    ELSE None

\* let start, end of getAllPresenceReports, for one employee
AllReportsWindow(params, employee, nowT, utcOffset) ==
    IF params.period = "" /\ params.startDate = None /\ params.endDate = None
    THEN IF employee.hireDate # None
         THEN Window(SetHoursZero(employee.hireDate[1]), SetHoursZero(nowT) + Day - 1)
         ELSE None
    ELSE IF params.period \in {"weekly", "monthly"} /\ params.startDate # None
    THEN ReportWindow(params, utcOffset)
    ELSE IF params.startDate # None /\ params.endDate # None
    THEN Window(ParseDate(params.startDate[1], utcOffset),
                ParseDate(params.endDate[1], utcOffset))
    ELSE None

\* where employeeId == id: the positions, in document-id order
EmployeeDocs(recs, employeeId) ==
    SelectSeq([i \in 1..Len(recs) |-> i], LAMBDA i : recs[i].employeeId = employeeId)

\* where employeeId == id and start <= entryTime <= end: the positions
InWindowDocs(recs, employeeId, window) ==
    SelectSeq(EmployeeDocs(recs, employeeId),
              LAMBDA i : /\ window.start <= recs[i].entryTime
                         /\ recs[i].entryTime <= window.end)

\* totalHours is kept in seconds
EmptyTotals == [totalDays |-> 0, totalHours |-> 0, lateDays |-> 0]

\* a session without an exit counted as a day of eight hours
CountedOpenAsWorkday(totals, r) ==
    IF r.entryTime = NoTime THEN totals
    ELSE [totalDays |-> totals.totalDays + 1,
          lateDays |-> totals.lateDays + (IF GetHours(r.entryTime) >= 9 THEN 1 ELSE 0),
          totalHours |-> totals.totalHours
                           + (IF r.exitTime # NoTime THEN r.exitTime - r.entryTime
                              ELSE 8 * Hour)]

\* one turn of attendanceRecords.forEach
Counted(totals, r) ==
    IF r.entryTime = NoTime THEN totals
    ELSE [totalDays |-> totals.totalDays + 1,
          lateDays |-> totals.lateDays + (IF GetHours(r.entryTime) >= 9 THEN 1 ELSE 0),
          totalHours |-> totals.totalHours
                           + (IF r.exitTime # NoTime THEN r.exitTime - r.entryTime ELSE 0)]

RECURSIVE Totals(_, _, _)
Totals(recs, docs, n) ==
    IF n = 0 THEN EmptyTotals ELSE Counted(Totals(recs, docs, n - 1), recs[docs[n]])

NoDate == [month |-> 0, day |-> 0]

Report(employeeId, period, startDate, endDate, totals) ==
    [employeeId |-> employeeId, period |-> period, startDate |-> startDate,
     endDate |-> endDate, totalDays |-> totals.totalDays,
     totalHours |-> totals.totalHours, lateDays |-> totals.lateDays]

ReportOutcome(status, message, reports) ==
    [status |-> status, message |-> message, reports |-> reports]

\* indexed: the composite index (employeeId, entryTime) exists
PresenceReportResult(params, recs, indexed, faults, utcOffset) ==
    IF ~ValidReport(params) THEN ReportOutcome(400, "Validation errors", <<>>)
    ELSE IF "getEmployee" \in faults THEN ReportOutcome(500, "Server error", <<>>)
    ELSE IF EmployeeDoc(params.employeeId) = None
    THEN ReportOutcome(404, "Employee not found", <<>>)
    ELSE LET window == ReportWindow(params, utcOffset)
         IN  IF window # None /\ ~indexed
             THEN ReportOutcome(500, "Database index required", <<>>)
             ELSE IF "reportQuery" \in faults
             THEN ReportOutcome(500, "Server error", <<>>)
             ELSE LET docs == IF window = None THEN EmployeeDocs(recs, params.employeeId)
                              ELSE InWindowDocs(recs, params.employeeId, window[1])
                  IN  ReportOutcome(200, "Presence report generated successfully",
                          <<Report(params.employeeId, params.period,
                                   IF window = None THEN NoDate
                                   ELSE ToISODate(window[1].start, utcOffset),
                                   IF window = None THEN NoDate
                                   ELSE ToISODate(window[1].end, utcOffset),
                                   Totals(recs, docs, Len(docs)))>>)

\* one fallback for the whole request as soon as any employee needs it
AnyFallback(employeeId, indexedFor) == indexedFor # {"a1", "e1", "e2"}

\* the windowed query of this employee throws the index error; indexedFor:
\* the employees whose windowed query the store can serve
UsesFallback(employeeId, indexedFor) == employeeId \notin indexedFor

\* the fallback of getAllPresenceReports: where employeeId == id, nothing else
UnfilteredDocs(recs, employeeId, window) == EmployeeDocs(recs, employeeId)

\* the body of the loop over the employees
EmployeeReport(params, employee, recs, indexedFor, nowT, utcOffset) ==
    LET window == AllReportsWindow(params, employee, nowT, utcOffset)
        docs == IF window = None THEN EmployeeDocs(recs, employee.id)
                ELSE IF UsesFallback(employee.id, indexedFor)
                THEN UnfilteredDocs(recs, employee.id, window[1])
                ELSE InWindowDocs(recs, employee.id, window[1])
        unset == params.period = "" /\ params.startDate = None /\ params.endDate = None
        startDate ==
            IF unset
            THEN IF employee.hireDate # None
                 THEN ToISODate(employee.hireDate[1], utcOffset) ELSE NoDate
            ELSE IF window # None THEN ToISODate(window[1].start, utcOffset)
            ELSE IF params.startDate # None THEN params.startDate[1] ELSE NoDate
        endDate ==
            IF unset
            THEN IF employee.hireDate # None THEN ToISODate(nowT, utcOffset) ELSE NoDate
            ELSE IF window # None THEN ToISODate(window[1].end, utcOffset)
            ELSE IF params.endDate # None THEN params.endDate[1] ELSE NoDate
    IN  Report(employee.id, IF params.period = "" THEN "all-time" ELSE params.period,
               startDate, endDate, Totals(recs, docs, Len(docs)))

AllReportsResult(params, recs, indexedFor, faults, nowT, utcOffset) ==
    IF "getEmployees" \in faults \/ "reportQuery" \in faults
    THEN ReportOutcome(500, "Server error", <<>>)
    ELSE ReportOutcome(200, "All presence reports generated successfully",
             [n \in 1..Len(DirectoryIds) |->
                 EmployeeReport(params, Directory[DirectoryIds[n]], recs, indexedFor,
                                nowT, utcOffset)])

----------------------------------------------------------------------------
(* Requests the model draws from *)

User(id) == [id |-> id, role |-> IF id = "a1" THEN "admin" ELSE "employee"]
Users == {User("e1"), User("e2"), User("a1")}

EmployeeIds == {"e1", "e2", "ghost"}
EntryTimes == {8 * Hour, 9 * Hour}
ExitTimes == {8 * Hour, 9 * Hour}
Inside == Loc(0, 0)
Outside == Loc(46, 0)
Locations == {Inside, Outside}
NoFaults == {}

\* indexed: the composite index the windowed query of recordExit needs exists;
\* faults: the store calls that throw while this request is handled
Request(route, user, body, indexed, faults) ==
    [route |-> route, user |-> user, body |-> body, indexed |-> indexed,
     faults |-> faults]

QrData(kind, employeeId, timestamp) ==
    [kind |-> kind, employeeId |-> employeeId, timestamp |-> timestamp,
     expiresAt |-> IF timestamp = NoTime THEN NoTime ELSE timestamp + QrLifetime]

FaceTemplates == {FaceVec(0, 0), FaceVec(60, 0)}

Requests(route, users, bodies, indexes) ==
    {Request(route, u, b, i, NoFaults) : u \in users, b \in bodies, i \in indexes}

\* sessions: manual entries, scans of a fresh or a six minutes old QR code,
\* facial entries, exits
SessionRequests(nowT) ==
    Requests("manual", Users,
             [employeeId : EmployeeIds, entryTime : EntryTimes, location : Locations,
              method : {"manual"}], {TRUE})
    \cup Requests("qr", Users,
             [qrData : {QrData("object", e, t) :
                            e \in EmployeeIds, t \in {nowT, nowT - 6 * 60}},
              entryTime : {9 * Hour}, location : Locations], {TRUE})
    \cup Requests("facial", Users,
             [employeeId : EmployeeIds, faceTemplate : FaceTemplates,
              entryTime : {9 * Hour}, location : Locations], {TRUE})
    \cup Requests("exit", Users,
             [employeeId : EmployeeIds, exitTime : ExitTimes, location : Locations],
             BOOLEAN)

\* entries by the three routes, well-formed or not
EntryRequests(nowT) ==
    Requests("manual", Users,
             [employeeId : EmployeeIds, entryTime : EntryTimes, location : Locations,
              method : Methods \cup {"other"}], {TRUE})
    \cup Requests("qr", Users,
             [qrData : {QrData("object", e, t) :
                            e \in EmployeeIds \cup {""},
                            t \in {nowT, nowT - 6 * 60, NoTime}}
                        \cup {QrData("garbage", "", NoTime), QrData("null", "", NoTime)},
              entryTime : EntryTimes, location : Locations], {TRUE})
    \cup Requests("facial", Users,
             [employeeId : EmployeeIds, faceTemplate : FaceTemplates,
              entryTime : EntryTimes, location : Locations], {TRUE})

----------------------------------------------------------------------------
(* State *)

Connections == {1, 2}

NoOutcome == Outcome(0, "", None, <<>>)
NoRequest == [route |-> ""]
NoResponse == [status |-> 0, message |-> ""]

\* pc: "idle", "received" (request read, handler not started), "query" and
\* "add" (recordAttendance waiting for that store call), "done" (responded)
Idle ==
    [pc |-> "idle", req |-> NoRequest, pending |-> NoOutcome,
     response |-> NoResponse, outbox |-> <<>>, reports |-> <<>>,
     confidence |-> None]

NoProbe == [kind |-> "none"]

Init ==
    /\ records = <<>>
    /\ now = StartNow
    /\ inflight = [c \in Connections |-> Idle]
    /\ employees = <<>>
    /\ probe = NoProbe

\* no request is being handled
Quiet == \A c \in Connections : inflight[c].pc = "idle"

----------------------------------------------------------------------------
(* The life of a request *)

Arrive(c, req) ==
    /\ inflight[c].pc = "idle"
    /\ inflight' = [inflight EXCEPT ![c] = [Idle EXCEPT !.pc = "received", !.req = req]]
    /\ UNCHANGED <<records, now, probe, employees>>

\* res.status(status).json({message}), after sendEmailAndNotify for each of sent
Responded(c, status, message, sent) ==
    [inflight[c] EXCEPT !.pc = "done", !.pending = NoOutcome,
                        !.response = [status |-> status, message |-> message],
                        !.outbox = sent]

Respond(c, status, message, sent) ==
    inflight' = [inflight EXCEPT ![c] = Responded(c, status, message, sent)]

\* the connection is closed
Finish(c) ==
    /\ inflight[c].pc = "done"
    /\ inflight' = [inflight EXCEPT ![c] = Idle]
    /\ UNCHANGED <<records, now, probe, employees>>

Handling(c, route) == inflight[c].pc = "received" /\ inflight[c].req.route = route

----------------------------------------------------------------------------
(* The handlers, each run from request to response in one step *)

\* the store after an entry handler: the document of the outcome, if any,
\* added at some position of the document-id order
CommitEntry(out) ==
    IF out.add = None
    THEN records' = records
    ELSE \E k \in 1..(Len(records) + 1) :
             records' = AddedRecords(records, k, out.add[1])

RecordAttendance(c) ==
    LET req == inflight[c].req
        out == RecordAttendanceResult(req.user, req.body, records, req.faults)
    IN  /\ Handling(c, "manual")
        /\ CommitEntry(out)
        /\ Respond(c, out.status, out.message, out.sent)
        /\ UNCHANGED <<now, probe, employees>>

ScanQrCode(c) ==
    LET req == inflight[c].req
        out == ScanQrCodeResult(req.user, req.body, now, req.faults)
    IN  /\ Handling(c, "qr")
        /\ CommitEntry(out)
        /\ Respond(c, out.status, out.message, out.sent)
        /\ UNCHANGED <<now, probe, employees>>

\* the employee document facialAttendance reads: the directory's, with the
\* face descriptor the enrolment under study stored
StoredEmployeeDoc(id) ==
    IF probe.kind = "face" /\ id = probe.employeeId
    THEN Some([Directory[id] EXCEPT !.faceDescriptor = probe.faceDescriptor])
    ELSE EmployeeDoc(id)

FacialAttendance(c) ==
    LET req == inflight[c].req
        out == FacialAttendanceResult(req.user, req.body,
                                      StoredEmployeeDoc(req.body.employeeId), req.faults)
        doc == StoredEmployeeDoc(req.body.employeeId)
        confidence ==
            IF out.status = 400 /\ out.message = "Face not recognized"
            THEN Some(Confidence(CalculateDistance(req.body.faceTemplate,
                                                   doc[1].faceDescriptor[1])))
            ELSE None
    IN  /\ Handling(c, "facial")
        /\ CommitEntry(out)
        /\ inflight' = [inflight EXCEPT ![c] =
                            [Responded(c, out.status, out.message, out.sent)
                                EXCEPT !.confidence = confidence]]
        /\ UNCHANGED <<now, probe, employees>>

RecordExit(c) ==
    LET req == inflight[c].req
        out == RecordExitResult(req.user, req.body, records, now, req.indexed, req.faults)
    IN  /\ Handling(c, "exit")
        /\ records' = IF out.update = 0 THEN records
                      ELSE UpdatedRecords(records, out.update, req.body.exitTime,
                                          req.body.location)
        /\ Respond(c, out.status, out.message, out.sent)
        /\ UNCHANGED <<now, probe, employees>>

\* the server's offset from UTC: TZ of the environment where a specification
\* sets it
UtcOffset == IF probe.kind = "report" THEN probe.utcOffset ELSE 0

\* res.status(status).json({message, data: {reports}})
RespondReports(c, out) ==
    inflight' = [inflight EXCEPT ![c] =
                    [@ EXCEPT !.pc = "done",
                              !.response = [status |-> out.status, message |-> out.message],
                              !.reports = out.reports]]

GetPresenceReport(c) ==
    LET req == inflight[c].req
    IN  /\ Handling(c, "report")
        /\ RespondReports(c, PresenceReportResult(req.body, records, req.indexed,
                                                  req.faults, UtcOffset))
        /\ UNCHANGED <<records, now, probe, employees>>

\* req.indexed: the employees whose windowed query the store can serve
GetAllPresenceReports(c) ==
    LET req == inflight[c].req
    IN  /\ Handling(c, "reports")
        /\ RespondReports(c, AllReportsResult(req.body, records, req.indexed,
                                              req.faults, now, UtcOffset))
        /\ UNCHANGED <<records, now, probe, employees>>

----------------------------------------------------------------------------
(* recordAttendance step by step: the handler gives up control at each await, *)
(* and another request may run in between                                   *)

\* up to the employee lookup and the authorization check
RecordAttendanceLookup(c) ==
    LET req == inflight[c].req
        head == RecordAttendanceHead(req.user, req.body, req.faults)
    IN  /\ Handling(c, "manual")
        /\ IF head # None
           THEN Respond(c, head[1].status, head[1].message, head[1].sent)
           ELSE inflight' = [inflight EXCEPT ![c].pc = "query"]
        /\ UNCHANGED <<records, now, probe, employees>>

\* the open-attendance query reads the store; the handler goes on to the
\* location check and the notifications, and calls add()
RecordAttendanceCheck(c) ==
    LET req == inflight[c].req
        out == RecordAttendanceRest(req.body,
                                    HasOpenAttendance(records, req.body.employeeId),
                                    req.faults)
    IN  /\ inflight[c].pc = "query"
        /\ IF out.add = None
           THEN Respond(c, out.status, out.message, out.sent)
           ELSE inflight' = [inflight EXCEPT ![c].pc = "add", ![c].pending = out,
                                             ![c].outbox = out.sent]
        /\ UNCHANGED <<records, now, probe, employees>>

\* add() writes the document; the handler responds
RecordAttendanceAdd(c) ==
    LET out == inflight[c].pending
    IN  /\ inflight[c].pc = "add"
        /\ \E k \in 1..(Len(records) + 1) :
               records' = AddedRecords(records, k, out.add[1])
        /\ Respond(c, out.status, out.message, out.sent)
        /\ UNCHANGED <<now, probe, employees>>

\* recordExit up to its update(): the employee lookup, the query, the loop
\* and the chronology check, all on the store as it is now
RecordExitFind(c) ==
    LET req == inflight[c].req
        out == RecordExitResult(req.user, req.body, records, now, req.indexed, req.faults)
    IN  /\ Handling(c, "exit")
        /\ IF out.update = 0
           THEN Respond(c, out.status, out.message, out.sent)
           ELSE inflight' = [inflight EXCEPT ![c].pc = "update", ![c].pending = out]
        /\ UNCHANGED <<records, now, probe, employees>>

\* update() writes the exit fields to the document found; the handler
\* responds
RecordExitUpdate(c) ==
    LET req == inflight[c].req
        out == inflight[c].pending
    IN  /\ inflight[c].pc = "update"
        /\ records' = UpdatedRecords(records, out.update, req.body.exitTime,
                                     req.body.location)
        /\ Respond(c, out.status, out.message, out.sent)
        /\ UNCHANGED <<now, probe, employees>>

----------------------------------------------------------------------------
(* initAdmin: POST /init/admin, a public route. The handler gives up        *)
(* control at each store call, and another call may run in between        *)

\* where("role", "==", "admin").limit(1): !adminsSnapshot.empty
AdminExists(emps) == \E i \in 1..Len(emps) : emps[i].role = "admin"

\* where("email", "==", email).limit(1): !existingEmployeeSnapshot.empty
EmailTaken(emps, email) == \E i \in 1..Len(emps) : emps[i].email = email

\* adminData, without the fields no query reads
AdminData(body) == [email |-> body.email, role |-> "admin"]

\* the admin query, and the check of password.length that follows it
InitAdminFindAdmin(c) ==
    LET req == inflight[c].req
    IN  /\ Handling(c, "initAdmin")
        /\ IF AdminExists(employees)
           THEN Respond(c, 400, "Admin user already exists", <<>>)
           ELSE IF req.body.passwordLength < 6
           THEN Respond(c, 400, "Password must be at least 6 characters long", <<>>)
           ELSE inflight' = [inflight EXCEPT ![c].pc = "findEmail"]
        /\ UNCHANGED <<records, now, probe, employees>>

\* the email query
InitAdminFindEmail(c) ==
    LET req == inflight[c].req
    IN  /\ inflight[c].pc = "findEmail"
        /\ IF EmailTaken(employees, req.body.email)
           THEN Respond(c, 400, "An account with this email already exists", <<>>)
           ELSE inflight' = [inflight EXCEPT ![c].pc = "addAdmin"]
        /\ UNCHANGED <<records, now, probe, employees>>

\* add(adminData), after the password was hashed; the handler responds
InitAdminAdd(c) ==
    LET req == inflight[c].req
    IN  /\ inflight[c].pc = "addAdmin"
        /\ employees' = Append(employees, AdminData(req.body))
        /\ Respond(c, 201, "Initial admin user created successfully", <<>>)
        /\ UNCHANGED <<records, now, probe>>

----------------------------------------------------------------------------
(* Specifications *)

\* the specifications stop adding documents at a bound
Within(bound) == Len(records') <= bound

\* sessions: one request at a time, on connection 1, every store call
\* succeeding
Next ==
    \/ Quiet /\ \E req \in SessionRequests(now) : Arrive(1, req)
    \/ RecordAttendance(1) /\ Within(MaxRecords)
    \/ ScanQrCode(1) /\ Within(MaxRecords)
    \/ FacialAttendance(1) /\ Within(MaxRecords)
    \/ RecordExit(1)
    \/ Finish(1)

Spec == Init /\ [][Next]_vars

\* the three entry routes: one request at a time, on connection 1, every
\* store call succeeding
NextEntry ==
    \/ Quiet /\ \E req \in EntryRequests(now) : Arrive(1, req)
    \/ RecordAttendance(1) /\ Within(MaxEntryRecords)
    \/ ScanQrCode(1) /\ Within(MaxEntryRecords)
    \/ FacialAttendance(1) /\ Within(MaxEntryRecords)
    \/ Finish(1)

SpecEntry == Init /\ [][NextEntry]_vars

\* overlapping manual entries
RaceBodies ==
    [employeeId : {"e1", "e2"}, entryTime : {9 * Hour}, location : Locations,
     method : {"manual"}]

RaceRequests ==
    {Request("manual", User(b.employeeId), b, TRUE, NoFaults) : b \in RaceBodies}

NextRace ==
    \E c \in Connections :
        \/ \E req \in RaceRequests : Arrive(c, req)
        \/ RecordAttendanceLookup(c)
        \/ RecordAttendanceCheck(c)
        \/ RecordAttendanceAdd(c) /\ Within(MaxRecords)
        \/ Finish(c)

SpecRace == Init /\ [][NextRace]_vars

\* two connections with overlapping exits of one employee, over a store in
\* which the employee has an open record
InitExitRace ==
    /\ records \in {<<NewAttendance("e1", 8 * Hour, Inside, "manual")>>,
                     <<NewAttendance("e2", 8 * Hour, Inside, "manual"),
                       NewAttendance("e1", 8 * Hour, Inside, "qr")>>}
    /\ now = 10 * Hour
    /\ inflight = [c \in Connections |-> Idle]
    /\ employees = <<>>
    /\ probe = NoProbe

ExitRaceRequests ==
    Requests("exit", {User("e1")},
             [employeeId : {"e1"}, exitTime : {8 * Hour, 9 * Hour, 10 * Hour},
              location : {Inside, Outside}], BOOLEAN)

NextExitRace ==
    \E c \in Connections :
        \/ \E req \in ExitRaceRequests : Arrive(c, req)
        \/ RecordExitFind(c)
        \/ RecordExitUpdate(c)
        \/ Finish(c)

SpecExitRace == InitExitRace /\ [][NextExitRace]_vars

\* exits on the fortieth day after day 0, over a store that holds records of
\* e1 entered that day or on day 0, open or closed, with or without the
\* composite index
RecentDay == 40 * Day

OlderSessions ==
    {NewAttendance("e1", 8 * Hour, Inside, "manual"),
     NewAttendance("e1", RecentDay + 8 * Hour, Inside, "manual"),
     NewAttendance("e1", RecentDay + 8 * Hour, Inside, "qr"),
     [NewAttendance("e1", RecentDay + 9 * Hour, Inside, "manual") EXCEPT
         !.exitTime = RecentDay + 10 * Hour, !.exitLocation = Inside]}

InitExitWindow ==
    /\ records \in UNION {[1..n -> OlderSessions] : n \in 0..MaxRecords}
    /\ now = RecentDay + 12 * Hour
    /\ inflight = [c \in Connections |-> Idle]
    /\ employees = <<>>
    /\ probe = NoProbe

ExitWindowRequests ==
    Requests("exit", {User("e1")},
             [employeeId : {"e1"},
              exitTime : {RecentDay + 7 * Hour, RecentDay + 11 * Hour},
              location : {Inside, Outside}], BOOLEAN)

NextExitWindow ==
    \/ Quiet /\ \E req \in ExitWindowRequests : Arrive(1, req)
    \/ RecordExit(1)
    \/ Finish(1)

SpecExitWindow == InitExitWindow /\ [][NextExitWindow]_vars

\* sessions on the fortieth day: manual entries whose entryTime, as the client
\* supplies it, is of that day or of day 0, and exits with or without the
\* composite index
InitStale ==
    /\ records = <<>>
    /\ now = RecentDay + 12 * Hour
    /\ inflight = [c \in Connections |-> Idle]
    /\ employees = <<>>
    /\ probe = NoProbe

StaleRequests ==
    Requests("manual", {User("e1"), User("e2")},
             [employeeId : {"e1", "e2"}, entryTime : {8 * Hour, RecentDay + 8 * Hour},
              location : {Inside}, method : {"manual"}], {TRUE})
    \cup Requests("exit", {User("e1"), User("e2")},
             [employeeId : {"e1", "e2"},
              exitTime : {RecentDay + 7 * Hour, RecentDay + 11 * Hour},
              location : {Inside}], BOOLEAN)

NextStale ==
    \/ Quiet /\ \E req \in StaleRequests : Arrive(1, req)
    \/ RecordAttendance(1) /\ Within(MaxRecords)
    \/ RecordExit(1)
    \/ Finish(1)

SpecStale == InitStale /\ [][NextStale]_vars

\* calls of initAdmin on two connections, over an employees collection that
\* is empty, or holds an employee, or already holds an admin; the body names
\* the email and a password of five or six characters
InitFresh ==
    /\ records = <<>>
    /\ now = StartNow
    /\ inflight = [c \in Connections |-> Idle]
    /\ probe = NoProbe
    /\ employees \in {<<>>,
                       <<[email |-> "admin@flesk.com", role |-> "employee"]>>,
                       <<[email |-> "root@corp", role |-> "admin"]>>}

InitAdminRequests ==
    Requests("initAdmin", {[id |-> "", role |-> ""]},
             [email : {"admin@flesk.com", "owner@corp"}, passwordLength : {5, 6}],
             {TRUE})

NextInitAdmin ==
    \E c \in Connections :
        \/ \E req \in InitAdminRequests : Arrive(c, req)
        \/ InitAdminFindAdmin(c)
        \/ InitAdminFindEmail(c)
        \/ InitAdminAdd(c)
        \/ Finish(c)

SpecInitAdmin == InitFresh /\ [][NextInitAdmin]_vars

\* scans of a QR code issued some time ago: the ages around the five minutes
\* of the handler and the twelve hours of the payload's expiresAt
QrAges == {0, 1, 5 * 60 - 1, 5 * 60, 5 * 60 + 1, 6 * 60,
           12 * Hour - 1, 12 * Hour, 12 * Hour + 1}

\* generateQrCode ran for employeeId at issuedAt
IssuedQr(employeeId, issuedAt) ==
    [kind |-> "qr", qrData |-> GeneratedQr(employeeId, issuedAt)]

InitQr ==
    /\ records = <<>>
    /\ now = 13 * Hour
    /\ inflight = [c \in Connections |-> Idle]
    /\ employees = <<>>
    /\ probe \in {IssuedQr(e, now - age) : e \in {"e1", "e2"}, age \in QrAges}

\* the issued payload, as it is or with expiresAt edited
QrScans ==
    Requests("qr", {User("e1"), User("a1")},
             [qrData : {probe.qrData,
                        [probe.qrData EXCEPT !.expiresAt = now + QrLifetime],
                        [probe.qrData EXCEPT !.expiresAt = NoTime]},
              entryTime : {8 * Hour}, location : Locations], {TRUE})

NextQr ==
    \/ Quiet /\ \E req \in QrScans : Arrive(1, req)
    \/ ScanQrCode(1) /\ Within(MaxEntryRecords)
    \/ Finish(1)

SpecQr == InitQr /\ [][NextQr]_vars

\* facial entries against a stored descriptor: at distance 0, just below 0.6,
\* exactly 0.6, above 0.6, and of another length
StoredDescriptors ==
    {Some(FaceVec(0, 0)), Some(FaceVec(36, 48)), Some(FaceVecOfLen(DescriptorLen - 1, 0, 0)),
     Some(FaceVecOfLen(DescriptorLen + 1, 0, 0)), Some(<<>>)}

ProbeTemplates ==
    {FaceVec(0, 0), FaceVec(36, 48), FaceVec(59, 10), FaceVec(59, 11),
     FaceVec(60, 0), FaceVec(61, 0), FaceVec(65, 0), FaceVec(60, 31), FaceVec(72, 96)}

InitFace ==
    /\ records = <<>>
    /\ now = StartNow
    /\ inflight = [c \in Connections |-> Idle]
    /\ employees = <<>>
    /\ probe \in {[kind |-> "face", employeeId |-> "e1", faceDescriptor |-> d] :
                      d \in StoredDescriptors}

FaceScans ==
    Requests("facial", {User("e1"), User("a1")},
             [employeeId : {"e1"}, faceTemplate : ProbeTemplates,
              entryTime : {8 * Hour}, location : Locations], {TRUE})

NextFace ==
    \/ Quiet /\ \E req \in FaceScans : Arrive(1, req)
    \/ FacialAttendance(1) /\ Within(MaxEntryRecords)
    \/ Finish(1)

SpecFace == InitFace /\ [][NextFace]_vars

\* entries from points around the edge of the allowed area, for several
\* values of ALLOWED_RADIUS in the environment
RadiusEnvs == {<<>>, <<0>>, <<1>>, <<499>>, <<500>>, <<1000>>, <<-5>>}

GeoPoints ==
    {Loc(0, 0), Loc(1, 0), Loc(45, 0), Loc(45, 2), Loc(45, 3), Loc(0, 46),
     Loc(-45, -2), Loc(90, 0), Loc(0, -91)}

InitGeo ==
    /\ records = <<>>
    /\ now = StartNow
    /\ inflight = [c \in Connections |-> Idle]
    /\ employees = <<>>
    /\ probe \in {[kind |-> "geo", radiusEnv |-> env] : env \in RadiusEnvs}

GeoRequests(nowT) ==
    Requests("manual", {User("e1")},
             [employeeId : {"e1"}, entryTime : {8 * Hour}, location : GeoPoints,
              method : {"manual"}], {TRUE})
    \cup Requests("qr", {User("e1")},
             [qrData : {GeneratedQr("e1", nowT)}, entryTime : {8 * Hour},
              location : GeoPoints], {TRUE})
    \cup Requests("facial", {User("e1")},
             [employeeId : {"e1"}, faceTemplate : {FaceVec(0, 0)},
              entryTime : {8 * Hour}, location : GeoPoints], {TRUE})

NextGeo ==
    \/ Quiet /\ \E req \in GeoRequests(now) : Arrive(1, req)
    \/ RecordAttendance(1) /\ Within(MaxEntryRecords)
    \/ ScanQrCode(1) /\ Within(MaxEntryRecords)
    \/ FacialAttendance(1) /\ Within(MaxEntryRecords)
    \/ Finish(1)

SpecGeo == InitGeo /\ [][NextGeo]_vars

\* entries from the center at instants around 09:00, the end of the day and
\* the same hours of the next day
LateTimes ==
    {0, 8 * Hour, 9 * Hour - 1, 9 * Hour, 9 * Hour + 1, 10 * Hour, Day - 1,
     Day + 8 * Hour, Day + 9 * Hour}

LateRequests(nowT) ==
    Requests("manual", {User("e1")},
             [employeeId : {"e1"}, entryTime : LateTimes, location : {Inside},
              method : {"manual"}], {TRUE})
    \cup Requests("qr", {User("e1")},
             [qrData : {GeneratedQr("e1", nowT)}, entryTime : LateTimes,
              location : {Inside}], {TRUE})
    \cup Requests("facial", {User("e1")},
             [employeeId : {"e1"}, faceTemplate : {FaceVec(0, 0)},
              entryTime : LateTimes, location : {Inside}], {TRUE})

NextLate ==
    \/ Quiet /\ \E req \in LateRequests(now) : Arrive(1, req)
    \/ RecordAttendance(1) /\ Within(MaxEntryRecords)
    \/ ScanQrCode(1) /\ Within(MaxEntryRecords)
    \/ FacialAttendance(1) /\ Within(MaxEntryRecords)
    \/ Finish(1)

SpecLate == Init /\ [][NextLate]_vars

\* sessions of one employee in which the notifier's promise may reject
WithFaults(reqs, faultSets) ==
    {[r EXCEPT !.faults = f] : r \in reqs, f \in faultSets}

NotifyRequests(nowT) ==
    WithFaults(
        Requests("manual", {User("e1")},
                 [employeeId : {"e1"}, entryTime : EntryTimes, location : Locations,
                  method : {"manual"}], {TRUE})
        \cup Requests("qr", {User("e1")},
                 [qrData : {QrData("object", "e1", t) : t \in {nowT, nowT - 6 * 60}},
                  entryTime : {9 * Hour}, location : Locations], {TRUE})
        \cup Requests("facial", {User("e1")},
                 [employeeId : {"e1"}, faceTemplate : {FaceVec(0, 0)},
                  entryTime : {9 * Hour}, location : Locations], {TRUE})
        \cup Requests("exit", {User("e1")},
                 [employeeId : {"e1"}, exitTime : {9 * Hour, 10 * Hour},
                  location : {Inside}], BOOLEAN),
        {NoFaults, {"notify"}})

NextNotify ==
    \/ Quiet /\ \E req \in NotifyRequests(now) : Arrive(1, req)
    \/ RecordAttendance(1) /\ Within(MaxRecords)
    \/ ScanQrCode(1) /\ Within(MaxRecords)
    \/ FacialAttendance(1) /\ Within(MaxRecords)
    \/ RecordExit(1)
    \/ Finish(1)

SpecNotify == Init /\ [][NextNotify]_vars

\* sessions of manual entries and exits in which the open-attendance query of
\* an entry may throw
OpenQueryRequests ==
    WithFaults(
        Requests("manual", {User("e1"), User("a1")},
                 [employeeId : {"e1", "e2"}, entryTime : EntryTimes, location : Locations,
                  method : {"manual"}], {TRUE}),
        {NoFaults, {"openQuery"}})
    \cup Requests("exit", {User("e1")},
             [employeeId : {"e1"}, exitTime : {9 * Hour, 10 * Hour},
              location : {Inside}], {TRUE})

NextOpenQuery ==
    \/ Quiet /\ \E req \in OpenQueryRequests : Arrive(1, req)
    \/ RecordAttendance(1) /\ Within(MaxRecords)
    \/ RecordExit(1)
    \/ Finish(1)

SpecOpenQuery == Init /\ [][NextOpenQuery]_vars

\* sessions of one employee in which add(), update(), or the get() that
\* follows either of them may throw
StoreFaultRequests(nowT) ==
    WithFaults(
        Requests("manual", {User("e1")},
                 [employeeId : {"e1"}, entryTime : EntryTimes, location : Locations,
                  method : {"manual"}], {TRUE})
        \cup Requests("qr", {User("e1")},
                 [qrData : {QrData("object", "e1", nowT)},
                  entryTime : {9 * Hour}, location : Locations], {TRUE})
        \cup Requests("exit", {User("e1")},
                 [employeeId : {"e1"}, exitTime : {9 * Hour, 10 * Hour},
                  location : {Inside}], {TRUE}),
        {NoFaults, {"add"}, {"getAdded"}, {"update"}, {"getUpdated"}})

NextStoreFault ==
    \/ Quiet /\ \E req \in StoreFaultRequests(now) : Arrive(1, req)
    \/ RecordAttendance(1) /\ Within(MaxRecords)
    \/ ScanQrCode(1) /\ Within(MaxRecords)
    \/ RecordExit(1)
    \/ Finish(1)

SpecStoreFault == Init /\ [][NextStoreFault]_vars

\* sessions of one employee whose requests may lack a field or carry a
\* malformed one: no employeeId, no ISO time, one or three coordinates, an
\* unknown method, no QR data, a face template of 127 components
MalformedLocations == {<<allowedLocation.lng>>, Inside \o <<0>>}

MalformedRequests(nowT) ==
    Requests("manual", {User("e1")},
             [employeeId : {"e1", ""}, entryTime : {9 * Hour, NoTime},
              location : {Inside, Outside} \cup MalformedLocations,
              method : {"manual", "other"}], {TRUE})
    \cup Requests("qr", {User("e1")},
             [qrData : {QrData("object", "e1", nowT), QrData("empty", "", NoTime)},
              entryTime : {9 * Hour, NoTime},
              location : {Inside, Outside} \cup MalformedLocations], {TRUE})
    \cup Requests("facial", {User("e1")},
             [employeeId : {"e1", ""},
              faceTemplate : {FaceVec(0, 0), FaceVecOfLen(DescriptorLen - 1, 0, 0)},
              entryTime : {9 * Hour, NoTime},
              location : {Inside, Outside} \cup MalformedLocations], {TRUE})
    \cup Requests("exit", {User("e1")},
             [employeeId : {"e1", ""}, exitTime : {10 * Hour, NoTime},
              location : {Inside} \cup MalformedLocations], {TRUE})

NextMalformed ==
    \/ Quiet /\ \E req \in MalformedRequests(now) : Arrive(1, req)
    \/ RecordAttendance(1) /\ Within(MaxRecords)
    \/ ScanQrCode(1) /\ Within(MaxRecords)
    \/ FacialAttendance(1) /\ Within(MaxRecords)
    \/ RecordExit(1)
    \/ Finish(1)

SpecMalformed == Init /\ [][NextMalformed]_vars

\* reports over a store that earlier sessions left: records of some weeks of
\* February, closed or still open
Feb(day) == [month |-> 2, day |-> day]
At(date, hours, minutes) == DayOfDate(date) * Day + hours * Hour + minutes * 60

Session(employeeId, entryTime, exitTime) ==
    [NewAttendance(employeeId, entryTime, Inside, "manual") EXCEPT
        !.exitTime = exitTime,
        !.exitLocation = IF exitTime = NoTime THEN NoLocation ELSE Inside]

SampleSessions ==
    {Session("e1", At(Feb(8), 0, 0), At(Feb(8), 1, 0)),
     Session("e1", At([month |-> 3, day |-> 1], 0, 0), NoTime),
     Session("e1", At(Feb(10), 8, 0), At(Feb(10), 17, 0)),
     Session("e1", At(Feb(10), 9, 0), At(Feb(10), 17, 0)),
     Session("e1", At(Feb(11), 9, 0), NoTime),
     Session("e1", At(Feb(15), 0, 0), NoTime),
     Session("e1", At(Feb(28), 10, 0), At(Feb(28), 12, 0)),
     Session("e2", At(Feb(10), 8, 0), At(Feb(10), 16, 0)),
     Session("e2", At(Feb(28), 9, 0), NoTime)}

ReportStores ==
    UNION {[1..n -> SampleSessions] : n \in 0..MaxReportRecords}

UtcOffsets == {0, Hour, -5 * Hour}

InitReport ==
    /\ records \in ReportStores
    /\ now = At([month |-> 3, day |-> 10], 12, 0)
    /\ inflight = [c \in Connections |-> Idle]
    /\ employees = <<>>
    /\ probe \in {[kind |-> "report", utcOffset |-> o] : o \in UtcOffsets}

StartDates == {Feb(8), Feb(26)}

ReportRequests ==
    Requests("report", {User("a1")},
             [employeeId : {"e1", "ghost"}, period : Periods \cup {"yearly"},
              startDate : {Some(d) : d \in StartDates},
              endDate : {None, Some(Feb(16))}], BOOLEAN)
    \cup Requests("reports", {User("a1")},
             [period : {"", "weekly", "monthly"},
              startDate : {None} \cup {Some(d) : d \in StartDates},
              endDate : {None, Some(Feb(16))}],
             SUBSET {"a1", "e1", "e2"})

NextReport ==
    \/ Quiet /\ \E req \in ReportRequests : Arrive(1, req)
    \/ GetPresenceReport(1)
    \/ GetAllPresenceReports(1)
    \/ Finish(1)

SpecReport == InitReport /\ [][NextReport]_vars

----------------------------------------------------------------------------
(* Properties                                                              *)

EntryRoutes == {"manual", "qr", "facial"}

\* the employee an entry request is for
Target(req) ==
    IF req.route = "qr" THEN req.body.qrData.employeeId ELSE req.body.employeeId

\* the caller is the target employee or holds the admin role
CallerMayActFor(req) == req.user.id = Target(req) \/ req.user.role = "admin"

\* the squared distance of two descriptors of one length that agree from the
\* third component on
PlaneDistSq(a, b) ==
    (a[1] - b[1]) * (a[1] - b[1]) + (a[2] - b[2]) * (a[2] - b[2])

AgreeBeyondPlane(a, b) ==
    Len(a) = Len(b) /\ Len(a) >= 2 /\ \A i \in 3..Len(a) : a[i] = b[i]

\* the template is within 0.6 of the stored descriptor (in units of 0.01)
WithinFaceThreshold(template, stored) ==
    AgreeBeyondPlane(template, stored) /\ PlaneDistSq(template, stored) < 60 * 60

\* the proof the route asks for is good: a QR payload not older than five
\* minutes, a face template within 0.6 of the stored descriptor
CredentialPasses(req, nowT) ==
    CASE req.route = "qr" ->
            /\ req.body.qrData.timestamp # NoTime
            /\ nowT - req.body.qrData.timestamp <= 5 * 60
      [] req.route = "facial" ->
            /\ Directory[Target(req)].faceDescriptor # None
            /\ WithinFaceThreshold(req.body.faceTemplate,
                                   Directory[Target(req)].faceDescriptor[1])
      [] OTHER -> TRUE

\* the request passes the validation chain of its route and names an employee
WellFormed(req) ==
    CASE req.route = "manual" -> ValidRecordAttendance(req.body)
      [] req.route = "qr" ->
            /\ ValidScanQr(req.body)
            /\ req.body.qrData.kind = "object"
            /\ req.body.qrData.employeeId # ""
      [] req.route = "facial" -> ValidFacialAttendance(req.body)
      [] OTHER -> FALSE

\* the number of records of an employee with exitTime unset
OpenCount(recs, employeeId) ==
    Cardinality({i \in 1..Len(recs) :
                    recs[i].employeeId = employeeId /\ recs[i].exitTime = NoTime})

\* this step is the handler of the route answering the request of connection c
Handled(c, route) ==
    /\ inflight[c].pc = "received"
    /\ inflight[c].req.route = route
    /\ inflight'[c].pc = "done"

Answered(c, route) == inflight[c].pc = "done" /\ inflight[c].req.route = route

DuplicateOpenSession ==
    [status |-> 400, message |-> "You already have an open attendance entry"]
NoOpenSession == [status |-> 400, message |-> "No entry attendance found for today"]
InvalidChronology == [status |-> 400, message |-> "Exit time must be after entry time"]

\* C1: whatever non-overlapping entries (manual, QR, facial) and exits have
\* run, with every store read succeeding, each employee has at most one
\* attendance record with exitTime unset.
C1_AtMostOneOpenSession ==
    \A e \in DOMAIN Directory : OpenCount(records, e) <= 1

\* C2: on each of the three entry routes, a request for an employee who has
\* a record with exitTime unset is answered DuplicateOpenSession, adds no
\* record and dispatches no notification.  (Stated for requests the earlier
\* steps let through: the employee exists, the caller may act for them, the
\* credential is good; the open-session query succeeds.)
C2_DuplicateRejectedOnEveryRoute ==
    [][\A c \in Connections, route \in EntryRoutes :
          (/\ Handled(c, route)
           /\ Target(inflight[c].req) \in DOMAIN Directory
           /\ CallerMayActFor(inflight[c].req)
           /\ CredentialPasses(inflight[c].req, now)
           /\ OpenCount(records, Target(inflight[c].req)) >= 1)
          => /\ inflight'[c].response = DuplicateOpenSession
             /\ records' = records
             /\ inflight'[c].outbox = <<>>]_vars

\* C3: the open-attendance check and the add() are separate steps: a manual
\* entry that passed the check adds its record and succeeds whatever has been
\* added to the store since the check.
C3_CheckedEntryAlwaysAdds ==
    [][\A c \in Connections :
          (inflight[c].pc = "add" /\ inflight'[c].pc = "done")
          => /\ Len(records') = Len(records) + 1
             /\ OpenCount(records', inflight[c].req.body.employeeId)
                    = OpenCount(records, inflight[c].req.body.employeeId) + 1
             /\ inflight'[c].response.status = 201]_vars

\* two overlapping manual entries for one employee, that had no open session,
\* both succeeded and the store holds two open records of that employee
C3_BothEntriesSucceeded ==
    /\ \A c \in Connections : Answered(c, "manual") /\ inflight[c].response.status = 201
    /\ inflight[1].req.body.employeeId = inflight[2].req.body.employeeId
    /\ Len(records) = 2
    /\ OpenCount(records, inflight[1].req.body.employeeId) = 2

\* C4: RecordExit for an existing employee who has no record with exitTime
\* unset is answered NoOpenSession and changes no record.
C4_ExitWithoutOpenSession ==
    [][\A c \in Connections :
          (/\ Handled(c, "exit")
           /\ inflight[c].req.body.employeeId \in DOMAIN Directory
           /\ OpenCount(records, inflight[c].req.body.employeeId) = 0)
          => /\ inflight'[c].response = NoOpenSession
             /\ records' = records]_vars

\* an exit was answered NoOpenSession for an employee all of whose records,
\* at least one, are closed
C4_ExitAfterSessionClosed ==
    /\ Answered(1, "exit")
    /\ inflight[1].response = NoOpenSession
    /\ OpenCount(records, inflight[1].req.body.employeeId) = 0
    /\ \E i \in 1..Len(records) :
           records[i].employeeId = inflight[1].req.body.employeeId

\* C5: RecordExit whose exit instant is less than or equal to the entryTime of
\* the open record it matched is answered InvalidChronology; the record is
\* left as it was, so the session stays open.
C5_ExitNotAfterEntryRejected ==
    [][\A c \in Connections :
          Handled(c, "exit") /\ inflight[c].req.body.employeeId \in DOMAIN Directory
          => LET req == inflight[c].req
                 found == ExistingAttendance(records, req.body.employeeId, now,
                                             req.indexed)
             IN  (found # 0 /\ req.body.exitTime <= records[found].entryTime)
                 => /\ inflight'[c].response = InvalidChronology
                    /\ records' = records
                    /\ records'[found].exitTime = NoTime]_vars

\* an exit at exactly the entry instant of the employee's only open record
\* was answered InvalidChronology
C5_ExitAtEntryInstant ==
    /\ Answered(1, "exit")
    /\ inflight[1].response = InvalidChronology
    /\ OpenCount(records, inflight[1].req.body.employeeId) = 1
    /\ \E i \in 1..Len(records) :
           /\ records[i].employeeId = inflight[1].req.body.employeeId
           /\ records[i].exitTime = NoTime
           /\ records[i].entryTime = inflight[1].req.body.exitTime

\* C6: the session of an employee cycles NoOpenSession -> OpenSession ->
\* NoOpenSession: a successful RecordExit of an employee with exactly one open
\* record leaves them none, and a manual entry by an authorised caller inside
\* the allowed area for an employee with no open record (as right after that
\* exit) is accepted and opens one.
C6_SessionCycle ==
    [][\A c \in Connections :
          /\ (/\ Handled(c, "exit")
              /\ inflight'[c].response.status = 200
              /\ OpenCount(records, inflight[c].req.body.employeeId) = 1)
             => OpenCount(records', inflight[c].req.body.employeeId) = 0
          /\ (/\ Handled(c, "manual")
              /\ Target(inflight[c].req) \in DOMAIN Directory
              /\ CallerMayActFor(inflight[c].req)
              /\ inflight[c].req.body.location = Inside
              /\ OpenCount(records, Target(inflight[c].req)) = 0)
             => /\ inflight'[c].response.status = 201
                /\ OpenCount(records', Target(inflight[c].req)) = 1]_vars

\* a manual entry was accepted for an employee whose earlier session is
\* closed: the store holds that closed record and the new open one
C6_EntryAfterExitAccepted ==
    /\ Answered(1, "manual")
    /\ inflight[1].response.status = 201
    /\ OpenCount(records, inflight[1].req.body.employeeId) = 1
    /\ \E i \in 1..Len(records) :
           /\ records[i].employeeId = inflight[1].req.body.employeeId
           /\ records[i].exitTime # NoTime

Forbidden == [status |-> 403, message |-> "Access denied"]
NotEnrolled == [status |-> 400, message |-> "Face not registered"]
FaceNotRecognized == [status |-> 400, message |-> "Face not recognized"]
ExpiredCredential == [status |-> 401, message |-> "Invalid or expired QR code"]

\* C7 as stated: on every entry route, a well-formed request for an existing
\* employee by a caller who is neither that employee nor an admin is answered
\* Forbidden and creates no record.
C7_UnauthorisedAlwaysForbidden ==
    [][\A c \in Connections, route \in EntryRoutes :
          (/\ Handled(c, route)
           /\ WellFormed(inflight[c].req)
           /\ Target(inflight[c].req) \in DOMAIN Directory
           /\ ~CallerMayActFor(inflight[c].req))
          => /\ inflight'[c].response = Forbidden
             /\ records' = records]_vars

\* C7: on every entry route, a well-formed request by a caller who is neither
\* the target employee nor an admin is refused and creates no record.  For an
\* existing employee the answer is Forbidden, except on the facial route when
\* the face check fails first: NotEnrolled when the employee has no stored
\* descriptor, NotRecognized when the template is not within 0.6 of it.
C7_UnauthorisedNeverRecords ==
    [][\A c \in Connections, route \in EntryRoutes :
          (/\ Handled(c, route)
           /\ WellFormed(inflight[c].req)
           /\ ~CallerMayActFor(inflight[c].req))
          => /\ records' = records
             /\ inflight'[c].response.status \in {403, 404, 400}
             /\ Target(inflight[c].req) \in DOMAIN Directory
                => inflight'[c].response =
                     IF route # "facial" \/ CredentialPasses(inflight[c].req, now)
                     THEN Forbidden
                     ELSE IF Directory[Target(inflight[c].req)].faceDescriptor = None
                     THEN NotEnrolled
                     ELSE FaceNotRecognized]_vars

\* a facial entry for e1 by the employee e2, with e1's own face, was answered
\* Forbidden and the store holds no record
C7_StrangerWithMatchingFaceForbidden ==
    /\ Answered(1, "facial")
    /\ inflight[1].req.user = User("e2")
    /\ inflight[1].req.body.employeeId = "e1"
    /\ CredentialPasses(inflight[1].req, now)
    /\ inflight[1].response = Forbidden
    /\ records = <<>>

\* recs without its k-th document
Without(recs, k) == SubSeq(recs, 1, k - 1) \o SubSeq(recs, k + 1, Len(recs))

\* the handler's check of the proof behind a method label did not fail for
\* this request
VerifiedAs(method, req, nowT) ==
    CASE method = "qr" ->
            /\ req.route = "qr"
            /\ \/ req.body.qrData.timestamp = NoTime
               \/ nowT - req.body.qrData.timestamp <= 5 * 60
      [] method = "facial" ->
            req.route = "facial" /\ CredentialPasses(req, nowT)
      [] OTHER -> TRUE

\* C8: the method stored on a record tells how the entry was verified: a
\* record with method qr is added only by a request whose QR payload passed
\* the freshness check, a record with method facial only by a request whose
\* face vector is within 0.6 of the stored descriptor; a manual entry adds no
\* record labelled qr or facial.
C8_MethodReflectsVerification ==
    [][\A c \in Connections, route \in EntryRoutes :
          Handled(c, route)
          => \A k \in 1..Len(records') :
                 records = Without(records', k)
                 => VerifiedAs(records'[k].method, inflight[c].req, now)]_vars

\* C9: a scan of a QR payload with a timestamp, by a caller allowed to act
\* for its employee, is answered ExpiredCredential (and adds no record)
\* exactly when now - timestamp > 5 minutes, whatever expiresAt says; a scan
\* that is not expired goes on to the location check, and inside the allowed
\* area it adds a record with method qr.
C9_ExpiredExactlyAfterFiveMinutes ==
    [][\A c \in Connections :
          (/\ Handled(c, "qr")
           /\ WellFormed(inflight[c].req)
           /\ Target(inflight[c].req) \in DOMAIN Directory
           /\ CallerMayActFor(inflight[c].req)
           /\ inflight[c].req.body.qrData.timestamp # NoTime)
          => LET req == inflight[c].req
                 age == now - req.body.qrData.timestamp
             IN  /\ inflight'[c].response = ExpiredCredential <=> age > 5 * 60
                 /\ age > 5 * 60 => records' = records
                 /\ (age <= 5 * 60 /\ req.body.location = Inside)
                    => /\ inflight'[c].response.status = 201
                       /\ Len(records') = Len(records) + 1
                       /\ \E k \in 1..Len(records') :
                              /\ records = Without(records', k)
                              /\ records'[k].method = "qr"
                              /\ records'[k].employeeId = Target(req)]_vars

\* a scan of a payload six minutes old, whose expiresAt is still hours away,
\* was answered ExpiredCredential and the store holds no record
C9_SixMinutesOldRejected ==
    /\ Answered(1, "qr")
    /\ now - inflight[1].req.body.qrData.timestamp = 6 * 60
    /\ inflight[1].req.body.qrData.expiresAt > now
    /\ inflight[1].response = ExpiredCredential
    /\ records = <<>>

\* C10: a facial entry for an enrolled employee by a caller allowed to act for
\* them passes the face check exactly when the template is at distance
\* strictly below 0.6 from the stored descriptor; at distance 0.6 or more, or
\* with a stored descriptor of another length, it is answered NotRecognized
\* and adds no record; past the check, inside the allowed area, it adds a
\* record with method facial.
C10_RecognizedExactlyBelowThreshold ==
    [][\A c \in Connections :
          (/\ Handled(c, "facial")
           /\ WellFormed(inflight[c].req)
           /\ probe.kind = "face"
           /\ Target(inflight[c].req) = probe.employeeId
           /\ probe.faceDescriptor # None
           /\ CallerMayActFor(inflight[c].req))
          => LET req == inflight[c].req
                 stored == probe.faceDescriptor[1]
                 close == WithinFaceThreshold(req.body.faceTemplate, stored)
             IN  /\ (Len(stored) = Len(req.body.faceTemplate)
                        => AgreeBeyondPlane(req.body.faceTemplate, stored))
                 /\ inflight'[c].response = FaceNotRecognized <=> ~close
                 /\ ~close => records' = records
                 /\ (close /\ req.body.location = Inside)
                    => /\ inflight'[c].response.status = 201
                       /\ \E k \in 1..Len(records') :
                              /\ records = Without(records', k)
                              /\ records'[k].method = "facial"]_vars

\* a template at distance exactly 0.6 from the stored descriptor (components
\* 0.36 and 0.48 apart) was answered NotRecognized and the store holds no
\* record
C10_AtThresholdRejected ==
    /\ Answered(1, "facial")
    /\ probe.kind = "face"
    /\ probe.faceDescriptor # None
    /\ AgreeBeyondPlane(inflight[1].req.body.faceTemplate, probe.faceDescriptor[1])
    /\ PlaneDistSq(inflight[1].req.body.faceTemplate, probe.faceDescriptor[1]) = 60 * 60
    /\ inflight[1].response = FaceNotRecognized
    /\ records = <<>>

OutOfBounds == [status |-> 400, message |-> "Location outside allowed area"]

\* every check before the location validation lets the request through
ReachesGeofence(req, recs, nowT) ==
    /\ WellFormed(req)
    /\ Target(req) \in DOMAIN Directory
    /\ CallerMayActFor(req)
    /\ CredentialPasses(req, nowT)
    /\ req.route = "manual" => OpenCount(recs, Target(req)) = 0

\* sqrt(dx^2 + dy^2) * 111000 > radius, for coordinates in units of 1e-4
\* degree around (8.8363, 33.1245): 11.1^2 * (dx^2 + dy^2) > radius^2
ScaledDistanceExceeds(coordinates, radius) ==
    12321 * ((coordinates[1] - 88363) * (coordinates[1] - 88363)
             + (coordinates[2] - 331245) * (coordinates[2] - 331245))
        > 100 * radius * radius

\* C11: on the manual, the QR and the facial route alike, an entry that
\* reaches the location validation is answered OutOfBounds exactly when
\* sqrt((lng - centerLng)^2 + (lat - centerLat)^2) * 111000 > radius, and is
\* accepted otherwise; the center passes for every radius >= 0.
C11_GeofencePredicate ==
    [][\A c \in Connections, route \in EntryRoutes :
          (/\ Handled(c, route)
           /\ EffectiveRadius >= 0
           /\ ReachesGeofence(inflight[c].req, records, now))
          => LET outside == ScaledDistanceExceeds(inflight[c].req.body.location,
                                                  EffectiveRadius)
             IN  /\ inflight'[c].response = OutOfBounds <=> outside
                 /\ ~outside => inflight'[c].response.status = 201
                 /\ inflight[c].req.body.location = <<88363, 331245>>
                    => inflight'[c].response.status = 201]_vars

\* with the radius of 500 m, a facial entry from 45 units east and 3 units
\* north of the center (500.6 m) was answered OutOfBounds
C11_JustOutsideRejected ==
    /\ Answered(1, "facial")
    /\ EffectiveRadius = 500
    /\ inflight[1].req.body.location = <<88363 + 45, 331245 + 3>>
    /\ inflight[1].response = OutOfBounds

\* the LocationViolation notification for an employee
LocationViolationFor(employeeId) ==
    [to |-> Directory[employeeId].email,
     subject |-> "Unauthorized Location Attempt",
     meta |-> [userId |-> employeeId, type |-> "location_issue"]]

\* C12: on every entry route, an entry that reaches the location validation
\* from outside the allowed area is answered OutOfBounds, dispatches exactly
\* one notification, the LocationViolation for the target employee, and adds
\* no record.
C12_OutOfBoundsNotifiesOnce ==
    [][\A c \in Connections, route \in EntryRoutes :
          (/\ Handled(c, route)
           /\ ReachesGeofence(inflight[c].req, records, now)
           /\ ScaledDistanceExceeds(inflight[c].req.body.location, EffectiveRadius))
          => /\ inflight'[c].response = OutOfBounds
             /\ inflight'[c].outbox = <<LocationViolationFor(Target(inflight[c].req))>>
             /\ records' = records]_vars

\* the admin's QR scan for e1 from outside the allowed area, at 09:00, was
\* answered OutOfBounds: one notification, addressed to e1, and no record
C12_AdminScanOutsideNotifiesEmployee ==
    /\ Answered(1, "qr")
    /\ inflight[1].req.user = User("a1")
    /\ Target(inflight[1].req) = "e1"
    /\ inflight[1].req.body.entryTime = 9 * Hour
    /\ inflight[1].response = OutOfBounds
    /\ inflight[1].outbox = <<LocationViolationFor("e1")>>
    /\ records = <<>>

\* the LateArrival notification for an employee
LateArrivalFor(employeeId) ==
    [to |-> Directory[employeeId].email,
     subject |-> "Late Attendance Notification",
     meta |-> [userId |-> employeeId, type |-> "late_arrival"]]

\* the hour of the day of an instant is 9 or more
AtOrAfterNine(t) == t % (24 * 3600) >= 9 * 3600

\* C13: an entry that passes every check dispatches the LateArrival
\* notification exactly when the local hour of its entry time is 9 or more,
\* and nothing when it is less; either way it succeeds and the record added
\* carries the request's entry time.
C13_LateArrivalNeverFails ==
    [][\A c \in Connections, route \in EntryRoutes :
          (/\ Handled(c, route)
           /\ ReachesGeofence(inflight[c].req, records, now)
           /\ ~ScaledDistanceExceeds(inflight[c].req.body.location, EffectiveRadius))
          => LET req == inflight[c].req
             IN  /\ inflight'[c].response.status = 201
                 /\ inflight'[c].outbox =
                        IF AtOrAfterNine(req.body.entryTime)
                        THEN <<LateArrivalFor(Target(req))>> ELSE <<>>
                 /\ Len(records') = Len(records) + 1
                 /\ \E k \in 1..Len(records') :
                        /\ records = Without(records', k)
                        /\ records'[k].employeeId = Target(req)
                        /\ records'[k].entryTime = req.body.entryTime
                        /\ records'[k].location = req.body.location]_vars

\* a facial entry at 09:00:00 sharp was accepted, the LateArrival notification
\* was dispatched, and the store holds the record with that entry time
C13_NineSharpIsLate ==
    /\ Answered(1, "facial")
    /\ inflight[1].req.body.entryTime = 9 * 3600
    /\ inflight[1].response.status = 201
    /\ inflight[1].outbox = <<LateArrivalFor("e1")>>
    /\ \E k \in 1..Len(records) :
           records[k].entryTime = 9 * 3600 /\ records[k].method = "facial"

\* what the handler of a request computes from the store and the clock
ResultOf(req, recs, nowT) ==
    CASE req.route = "manual" ->
            RecordAttendanceResult(req.user, req.body, recs, req.faults)
      [] req.route = "qr" -> ScanQrCodeResult(req.user, req.body, nowT, req.faults)
      [] req.route = "facial" ->
            FacialAttendanceResult(req.user, req.body,
                                   StoredEmployeeDoc(req.body.employeeId), req.faults)
      [] req.route = "exit" ->
            RecordExitResult(req.user, req.body, recs, nowT, req.indexed, req.faults)

\* the same request with a notifier that succeeds
WithNotifierUp(req) == [req EXCEPT !.faults = @ \ {"notify"}]

\* C14: whether the notifier call succeeds or fails, an entry and an exit
\* give the caller the same response and leave the store in the same state:
\* each request is answered, and changes the store, as the same request
\* would with a notifier that succeeds.
C14_NotifierOutcomeInvisible ==
    [][\A c \in Connections :
          /\ \A route \in EntryRoutes :
                Handled(c, route)
                => LET ref == ResultOf(WithNotifierUp(inflight[c].req), records, now)
                   IN  /\ inflight'[c].response =
                              [status |-> ref.status, message |-> ref.message]
                       /\ IF ref.add = None THEN records' = records
                          ELSE \E k \in 1..Len(records') :
                                   /\ records = Without(records', k)
                                   /\ records'[k] = ref.add[1]
          /\ Handled(c, "exit")
             => LET ref == ResultOf(WithNotifierUp(inflight[c].req), records, now)
                IN  /\ inflight'[c].response =
                           [status |-> ref.status, message |-> ref.message]
                    /\ records' =
                           IF ref.update = 0 THEN records
                           ELSE [records EXCEPT ![ref.update] =
                                    [@ EXCEPT !.exitTime = inflight[c].req.body.exitTime,
                                              !.exitLocation =
                                                  inflight[c].req.body.location]]]_vars

\* an exit whose notification failed was answered 200 and closed the session
C14_ExitSucceededNotifierDown ==
    /\ Answered(1, "exit")
    /\ "notify" \in inflight[1].req.faults
    /\ inflight[1].outbox # <<>>
    /\ inflight[1].response.status = 200
    /\ \E i \in 1..Len(records) :
           /\ records[i].employeeId = inflight[1].req.body.employeeId
           /\ records[i].exitTime = inflight[1].req.body.exitTime

\* the window a report request asks for, for one employee: None where the
\* request sets no window
RequestedWindow(req, employeeId, nowT) ==
    IF req.route = "report" THEN ReportWindow(req.body, UtcOffset)
    ELSE AllReportsWindow(req.body, Directory[employeeId], nowT, UtcOffset)

\* the positions of the employee's records with entryTime in the window
WindowRecords(recs, employeeId, window) ==
    {i \in 1..Len(recs) :
        /\ recs[i].employeeId = employeeId
        /\ window # None => /\ recs[i].entryTime >= window[1].start
                            /\ recs[i].entryTime <= window[1].end}

\* the seconds between entry and exit, summed over the closed records of a
\* set of positions
RECURSIVE SecondsWorked(_, _)
SecondsWorked(recs, docs) ==
    IF docs = {} THEN 0
    ELSE LET i == CHOOSE j \in docs : TRUE
         IN  (IF recs[i].exitTime = NoTime THEN 0
              ELSE recs[i].exitTime - recs[i].entryTime)
             + SecondsWorked(recs, docs \ {i})

\* the aggregate the report is specified to be, over a set of positions
ReferenceTotals(recs, docs) ==
    [totalDays |-> Cardinality({i \in docs : recs[i].entryTime # NoTime}),
     lateDays |-> Cardinality({i \in docs : /\ recs[i].entryTime # NoTime
                                            /\ recs[i].entryTime % Day >= 9 * Hour}),
     totalHours |-> SecondsWorked(recs, docs)]

TotalsOf(report) ==
    [totalDays |-> report.totalDays, lateDays |-> report.lateDays,
     totalHours |-> report.totalHours]

\* the windowed query of the request served this employee, or the request
\* set no window
ServedByPrimaryQuery(req, employeeId, nowT) ==
    \/ RequestedWindow(req, employeeId, nowT) = None
    \/ req.route = "report"
    \/ employeeId \in req.indexed

\* C15: every report a request returns, when its query is the primary one,
\* carries the reference aggregate of the employee's records in the window:
\* totalDays the number of records with an entry time, lateDays the number of
\* those entered at local hour 9 or later, totalHours the sum of exit minus
\* entry over the records with an exit, the open ones adding nothing.
C15_ReportEqualsReference ==
    [][\A c \in Connections, route \in {"report", "reports"} :
          (Handled(c, route) /\ inflight'[c].response.status = 200)
          => \A n \in 1..Len(inflight'[c].reports) :
                LET report == inflight'[c].reports[n]
                    req == inflight[c].req
                IN  ServedByPrimaryQuery(req, report.employeeId, now)
                    => TotalsOf(report) =
                           ReferenceTotals(records,
                               WindowRecords(records, report.employeeId,
                                   RequestedWindow(req, report.employeeId, now)))]_vars

\* the weekly report of an employee with a session from 09:00 to 17:00 and a
\* session entered at 09:00 and still open: two days, both late, eight hours
C15_OpenSessionAddsNoHours ==
    /\ Answered(1, "report")
    /\ inflight[1].req.body.period = "weekly"
    /\ inflight[1].response.status = 200
    /\ \E i, j \in 1..Len(records) :
           /\ records[i] = Session("e1", At(Feb(10), 9, 0), At(Feb(10), 17, 0))
           /\ records[j] = Session("e1", At(Feb(11), 9, 0), NoTime)
    /\ TotalsOf(inflight[1].reports[1]) =
           [totalDays |-> 2, lateDays |-> 2, totalHours |-> 8 * Hour]

\* C16: a valid report request for one employee of the directory is answered
\* with the report whether or not the store can serve the windowed query:
\* the missing composite index never reaches the caller as an error.
C16_ReportSurvivesMissingIndex ==
    [][\A c \in Connections :
          (/\ Handled(c, "report")
           /\ ValidReport(inflight[c].req.body)
           /\ inflight[c].req.body.employeeId \in DOMAIN Directory)
          => /\ inflight'[c].response.status = 200
             /\ Len(inflight'[c].reports) = 1]_vars

\* the reports of a request for all employees had every windowed query been
\* served
PrimaryReports(req, recs, nowT) ==
    AllReportsResult(req.body, recs, DOMAIN Directory, req.faults, nowT, UtcOffset).reports

\* C17: a report built through the fallback of the windowed query is the
\* report the windowed query would have given over the same store: it counts
\* the employee's records with entryTime in the window and no others.
C17_FallbackEqualsPrimary ==
    [][\A c \in Connections :
          (Handled(c, "reports") /\ inflight'[c].response.status = 200)
          => \A n \in 1..Len(inflight'[c].reports) :
                LET report == inflight'[c].reports[n]
                    req == inflight[c].req
                IN  ~ServedByPrimaryQuery(req, report.employeeId, now)
                    => /\ report = PrimaryReports(req, records, now)[n]
                       /\ TotalsOf(report) =
                              ReferenceTotals(records,
                                  WindowRecords(records, report.employeeId,
                                      RequestedWindow(req, report.employeeId, now)))]_vars

\* C18: a request for the reports of all employees is answered with one
\* report per employee of the directory whichever employees' windowed queries
\* the store cannot serve, and the report of every employee whose windowed
\* query was served is the one the request gives when all of them are.
C18_DegradesPerEmployee ==
    [][\A c \in Connections :
          Handled(c, "reports")
          => LET req == inflight[c].req
                 reports == inflight'[c].reports
             IN  /\ inflight'[c].response.status = 200
                 /\ Len(reports) = Cardinality(DOMAIN Directory)
                 /\ {reports[n].employeeId : n \in 1..Len(reports)} = DOMAIN Directory
                 /\ \A n \in 1..Len(reports) :
                        reports[n].employeeId \in req.indexed
                        => reports[n] = PrimaryReports(req, records, now)[n]]_vars

\* a weekly request during which only the windowed query of e1 failed: three
\* reports came back, the one of e1 counts a record from outside the window,
\* and the one of e2, who has such a record too, does not
C18_OnlyOneEmployeeFellBack ==
    /\ Answered(1, "reports")
    /\ inflight[1].req.indexed = {"a1", "e2"}
    /\ inflight[1].req.body.period = "weekly"
    /\ inflight[1].req.body.startDate = Some(Feb(8))
    /\ inflight[1].response.status = 200
    /\ Len(inflight[1].reports) = 3
    /\ \E i, j \in 1..Len(records) :
           /\ records[i] = Session("e1", At(Feb(28), 10, 0), At(Feb(28), 12, 0))
           /\ records[j] = Session("e2", At(Feb(28), 9, 0), NoTime)
    /\ inflight[1].reports[2].employeeId = "e1"
    /\ inflight[1].reports[2].totalDays = 1
    /\ inflight[1].reports[3].employeeId = "e2"
    /\ inflight[1].reports[3].totalDays = 0

\* the calendar date after a date, and n days after it
NextDate(date) ==
    IF date.day < MonthLengths[date.month] THEN [date EXCEPT !.day = @ + 1]
    ELSE [month |-> date.month + 1, day |-> 1]

RECURSIVE DaysLater(_, _)
DaysLater(date, n) == IF n = 0 THEN date ELSE NextDate(DaysLater(date, n - 1))

\* C19: a weekly report asked for with startDate D says startDate D and
\* endDate seven calendar days after D, whatever the date, the end of a
\* month between the two included, and whatever the offset of the server's
\* clock from UTC.
C19_WeeklyDatesRoundTrip ==
    [][\A c \in Connections, route \in {"report", "reports"} :
          (/\ Handled(c, route)
           /\ inflight[c].req.body.period = "weekly"
           /\ inflight[c].req.body.startDate # None
           /\ inflight'[c].response.status = 200)
          => \A n \in 1..Len(inflight'[c].reports) :
                LET D == inflight[c].req.body.startDate[1]
                    report == inflight'[c].reports[n]
                IN  /\ report.startDate = D
                    /\ report.endDate = DaysLater(D, 7)]_vars

NotFound == [status |-> 404, message |-> "Employee not found"]

\* the request passes the validation chain of its route
Validated(req) ==
    IF req.route = "exit" THEN ValidExitAttendance(req.body) ELSE WellFormed(req)

\* C20: on the three entry routes and on the exit route, a request naming
\* an employee the directory does not hold is answered NotFound, whoever
\* the caller is and whatever role the caller has, and leaves the store as
\* it was.
C20_UnknownEmployeeNotFound ==
    [][\A c \in Connections, route \in EntryRoutes \cup {"exit"} :
          (/\ Handled(c, route)
           /\ Validated(inflight[c].req)
           /\ Target(inflight[c].req) \notin DOMAIN Directory)
          => /\ inflight'[c].response = NotFound
             /\ records' = records]_vars

Closed(r) == r.exitTime # NoTime

\* C21: in sessions of entries and exits handled one after the other, a
\* record whose exitTime is set keeps its exitTime and its exitLocation
\* through every later step: no entry and no exit touches it again.
C21_ExitFieldsImmutable ==
    [][\/ /\ Len(records') = Len(records)
          /\ \A i \in 1..Len(records) :
                Closed(records[i])
                => /\ records'[i].exitTime = records[i].exitTime
                   /\ records'[i].exitLocation = records[i].exitLocation
       \/ \E k \in 1..Len(records') : records = Without(records', k)]_vars

\* an exit succeeded for an employee who already had a closed record: the
\* store holds two closed records of e1 with different exit locations
C21_SecondSessionClosed ==
    /\ Answered(1, "exit")
    /\ inflight[1].response.status = 200
    /\ \E i, j \in 1..Len(records) :
           /\ records[i].employeeId = "e1" /\ records[j].employeeId = "e1"
           /\ Closed(records[i]) /\ Closed(records[j])
           /\ records[i].exitLocation # records[j].exitLocation

\* C22: a manual entry whose open-attendance query throws is never answered
\* DuplicateOpenSession: past the employee lookup and the authorization it
\* goes on to the location check, and inside the allowed area it is answered
\* 201 and adds its record, whether or not the employee has an open record.
C22_OpenCheckBestEffort ==
    [][\A c \in Connections :
          (/\ Handled(c, "manual")
           /\ "openQuery" \in inflight[c].req.faults
           /\ WellFormed(inflight[c].req)
           /\ Target(inflight[c].req) \in DOMAIN Directory
           /\ CallerMayActFor(inflight[c].req))
          => LET req == inflight[c].req
             IN  IF ScaledDistanceExceeds(req.body.location, EffectiveRadius)
                 THEN inflight'[c].response = OutOfBounds /\ records' = records
                 ELSE /\ inflight'[c].response.status = 201
                      /\ \E k \in 1..Len(records') :
                             /\ records = Without(records', k)
                             /\ records'[k].employeeId = Target(req)
                             /\ IsOpen(records'[k])]_vars

\* a manual entry whose open-attendance query threw was answered 201 although
\* the employee had an open record: the store now holds two
C22_SecondOpenRecordAfterFailedCheck ==
    /\ Answered(1, "manual")
    /\ "openQuery" \in inflight[1].req.faults
    /\ inflight[1].response.status = 201
    /\ OpenCount(records, inflight[1].req.body.employeeId) = 2

ValidationError(response) ==
    /\ response.status = 400
    /\ response.message \in {"Validation errors", "Validation failed"}

\* the body of an entry or exit request lacks a field or has a malformed one
Malformed(req) ==
    \/ req.route \in {"manual", "facial", "exit"} /\ req.body.employeeId = ""
    \/ req.route \in EntryRoutes /\ req.body.entryTime = NoTime
    \/ req.route = "exit" /\ req.body.exitTime = NoTime
    \/ Len(req.body.location) # 2
    \/ req.route = "manual" /\ req.body.method \notin {"manual", "qr", "facial"}
    \/ req.route = "qr" /\ req.body.qrData.kind = "empty"
    \/ req.route = "facial" /\ Len(req.body.faceTemplate) # 128

\* C23: an entry or exit request with a malformed body is answered with a
\* validation error, leaves the store as it was and dispatches no
\* notification; the answer is the one it gets over an empty store, so no
\* attendance record was read for it.
C23_MalformedRejectedFirst ==
    [][\A c \in Connections, route \in EntryRoutes \cup {"exit"} :
          (Handled(c, route) /\ Malformed(inflight[c].req))
          => /\ ValidationError(inflight'[c].response)
             /\ records' = records
             /\ inflight'[c].outbox = <<>>
             /\ LET ref == ResultOf(inflight[c].req, <<>>, now)
                IN  inflight'[c].response =
                        [status |-> ref.status, message |-> ref.message]]_vars

\* an exit request with three coordinates was rejected while its employee had
\* an open record, which is still open
C23_MalformedExitLeftSessionOpen ==
    /\ Answered(1, "exit")
    /\ Len(inflight[1].req.body.location) = 3
    /\ inflight[1].req.body.exitTime = 10 * Hour
    /\ ValidationError(inflight[1].response)
    /\ inflight[1].outbox = <<>>
    /\ OpenCount(records, "e1") = 1

\* tenths is max(0, 100 * (1 - d)) percent to one decimal, for a distance d
\* whose square is sq in units of 0.0001
ClampedConfidence(tenths, sq) ==
    IF sq >= 100 * 100 THEN tenths = 0
    ELSE /\ tenths >= 0
         /\ (2 * (1000 - tenths) - 1) * (2 * (1000 - tenths) - 1) <= 400 * sq
         /\ 400 * sq <= (2 * (1000 - tenths) + 1) * (2 * (1000 - tenths) + 1)

\* C24: the confidence a facial entry reports with NotRecognized is
\* max(0, 100 * (1 - d)) percent for the distance d of the template from the
\* stored descriptor: 35.0 for d = 0.65, and never below 0, d > 1 included.
C24_ConfidenceClamped ==
    [][\A c \in Connections :
          (Handled(c, "facial") /\ inflight'[c].response = FaceNotRecognized)
          => LET stored == StoredEmployeeDoc(inflight[c].req.body.employeeId)[1].faceDescriptor[1]
                 template == inflight[c].req.body.faceTemplate
             IN  /\ inflight'[c].confidence # None
                 /\ ~inflight'[c].confidence[1].negInfinity
                 /\ AgreeBeyondPlane(template, stored)
                    => ClampedConfidence(inflight'[c].confidence[1].tenths,
                                         PlaneDistSq(template, stored))]_vars

\* the records of one employee, and those of all the others, in store order
Own(recs, employeeId) == SelectSeq(recs, LAMBDA r : r.employeeId = employeeId)
NotOwn(recs, employeeId) == SelectSeq(recs, LAMBDA r : r.employeeId # employeeId)

\* C25: an entry or an exit for one employee leaves the records of every
\* other employee as they were, and its response, its notifications and
\* what it does to the employee's own records are what the same request
\* gives over a store that holds that employee's records only.
C25_EmployeesIndependent ==
    [][\A c \in Connections, route \in EntryRoutes \cup {"exit"} :
          Handled(c, route)
          => LET req == inflight[c].req
                 A == Target(req)
                 own == Own(records, A)
                 ref == ResultOf(req, own, now)
             IN  /\ NotOwn(records', A) = NotOwn(records, A)
                 /\ inflight'[c].response = [status |-> ref.status, message |-> ref.message]
                 /\ inflight'[c].outbox = ref.sent
                 /\ IF route = "exit"
                    THEN Own(records', A) =
                             IF ref.update = 0 THEN own
                             ELSE UpdatedRecords(own, ref.update, req.body.exitTime,
                                                 req.body.location)
                    ELSE IF ref.add = None THEN Own(records', A) = own
                    ELSE \E k \in 1..Len(Own(records', A)) :
                             /\ own = Without(Own(records', A), k)
                             /\ Own(records', A)[k] = ref.add[1]]_vars

\* e1 entered and left while e2 had an open record: the exit of e1 succeeded
\* and the record of e2 is still open
C25_ExitBesideOpenSessionOfOther ==
    /\ Answered(1, "exit")
    /\ inflight[1].req.body.employeeId = "e1"
    /\ inflight[1].response.status = 200
    /\ OpenCount(records, "e1") = 0
    /\ OpenCount(records, "e2") = 1

\* C26: the query and the update() of an exit are separate steps: an exit
\* that found an open record and passed the chronology check writes its
\* exitTime and exitLocation to that record and is answered 200 whatever
\* another exit has written to the record since, a set exitTime included.
C26_LastExitWins ==
    [][\A c \in Connections :
          (inflight[c].pc = "update" /\ inflight'[c].pc = "done")
          => LET req == inflight[c].req
                 found == inflight[c].pending.update
             IN  /\ inflight'[c].response.status = 200
                 /\ records'[found].exitTime = req.body.exitTime
                 /\ records'[found].exitLocation = req.body.location
                 /\ \A i \in 1..Len(records) \ {found} : records'[i] = records[i]]_vars

\* two overlapping exits of e1 with different exit times were both answered
\* 200; the one record of e1 carries the exit fields of the request of
\* connection 1, whose update was applied last and replaced those of the other
C26_BothExitsSucceeded ==
    /\ \A c \in Connections : Answered(c, "exit") /\ inflight[c].response.status = 200
    /\ inflight[1].req.body.exitTime = 9 * Hour
    /\ inflight[2].req.body.exitTime = 10 * Hour
    /\ Len(records) = 1
    /\ records[1].exitTime = 9 * Hour
    /\ records[1].exitLocation = inflight[1].req.body.location
    /\ inflight[1].req.body.location # inflight[2].req.body.location

\* the same exit request served by the windowed, ordered query
WithIndex(req) == [req EXCEPT !.indexed = TRUE]

\* C27: an exit is answered, and changes the store, in the same way whether
\* its windowed query is served or the index is missing and the fallback
\* runs: the fallback selects the record the windowed query selects, or finds
\* none where the windowed query finds none.
C27_ExitFallbackEqualsPrimary ==
    [][\A c \in Connections :
          Handled(c, "exit")
          => LET req == inflight[c].req
                 ref == ResultOf(WithIndex(req), records, now)
             IN  /\ inflight'[c].response = [status |-> ref.status, message |-> ref.message]
                 /\ records' = IF ref.update = 0 THEN records
                               ELSE UpdatedRecords(records, ref.update, req.body.exitTime,
                                                   req.body.location)]_vars

\* the positions of the employee's records entered at or after the start of
\* the window and before its end
HalfOpenWindowRecords(recs, employeeId, window) ==
    {i \in 1..Len(recs) :
        /\ recs[i].employeeId = employeeId
        /\ recs[i].entryTime >= window[1].start
        /\ recs[i].entryTime < window[1].end}

\* C28: a weekly or monthly report counts the records entered from the start
\* of its window on and before its end: a record entered at the very start
\* is counted, one entered exactly seven days after the start of the week, or
\* at the first instant of the next month, is not.
C28_WindowHalfOpen ==
    [][\A c \in Connections, route \in {"report", "reports"} :
          (/\ Handled(c, route)
           /\ inflight[c].req.body.period \in {"weekly", "monthly"}
           /\ inflight'[c].response.status = 200)
          => \A n \in 1..Len(inflight'[c].reports) :
                LET report == inflight'[c].reports[n]
                    req == inflight[c].req
                    window == RequestedWindow(req, report.employeeId, now)
                IN  (window # None /\ ServedByPrimaryQuery(req, report.employeeId, now))
                    => TotalsOf(report) =
                           ReferenceTotals(records,
                               HalfOpenWindowRecords(records, report.employeeId, window))]_vars

\* C29: an exit answered 200 has persisted the exit fields and dispatches
\* exactly one notification, ExitRecorded, addressed to the employee's email
\* with the employee's id and a type as metadata; an exit answered otherwise
\* dispatches none.
C29_ExitNotifiesEmployee ==
    [][\A c \in Connections :
          Handled(c, "exit")
          => LET req == inflight[c].req
                 sent == inflight'[c].outbox
             IN  IF inflight'[c].response.status = 200
                 THEN /\ \E i \in 1..Len(records) :
                             /\ IsOpen(records[i])
                             /\ records'[i].exitTime = req.body.exitTime
                      /\ Len(sent) = 1
                      /\ sent[1].subject = "Exit Recorded"
                      /\ sent[1].to = Directory[req.body.employeeId].email
                      /\ sent[1].meta.userId = req.body.employeeId
                      /\ sent[1].meta.type # ""
                 ELSE sent = <<>>]_vars

----------------------------------------------------------------------------
(* Every attendance operation over one store: entries by the three routes, *)
(* exits, and the two reports                                              *)

\* sessions of entries and exits, with a report of one employee or of all
\* employees asked for in between
NextAttendance ==
    \/ Quiet
       /\ \E req \in SessionRequests(now)
                 \cup Requests("report", {User("a1")},
                          [employeeId : {"e1"}, period : {"weekly"},
                           startDate : {Some([month |-> 1, day |-> 1])},
                           endDate : {None}], BOOLEAN)
                 \cup Requests("reports", {User("a1")},
                          [period : {"", "monthly"}, startDate : {None},
                           endDate : {None}], {{}, {"a1", "e1", "e2"}}) :
             Arrive(1, req)
    \/ RecordAttendance(1) /\ Within(MaxRecords)
    \/ ScanQrCode(1) /\ Within(MaxRecords)
    \/ FacialAttendance(1) /\ Within(MaxRecords)
    \/ RecordExit(1)
    \/ GetPresenceReport(1)
    \/ GetAllPresenceReports(1)
    \/ Finish(1)

SpecAttendance == Init /\ [][NextAttendance]_vars

\* the fields an entry wrote
SameEntry(r, s) ==
    /\ r.employeeId = s.employeeId
    /\ r.entryTime = s.entryTime
    /\ r.location = s.location
    /\ r.method = s.method

\* C30: no step of an entry, an exit or a report deletes an attendance record
\* or changes the employeeId, entryTime, location or method of one: a step
\* leaves the collection alone, or adds one document beside the others, or,
\* in recordExit only, changes the exitTime and exitLocation of one record.
C30_RecordsOnlyGainExit ==
    [][\/ records' = records
       \/ /\ Len(records') = Len(records) + 1
          /\ \E k \in 1..Len(records') : Without(records', k) = records
       \/ /\ Handled(1, "exit")
          /\ Len(records') = Len(records)
          /\ \E i \in 1..Len(records) :
                /\ SameEntry(records'[i], records[i])
                /\ \A j \in 1..Len(records) : j # i => records'[j] = records[j]]_vars

\* an exit was answered 200 over a store of two records: a record of the
\* employee carries the exit time, and an exit location that is not the
\* location of its entry
C30_ExitRecordedBesideOtherRecord ==
    /\ Answered(1, "exit")
    /\ inflight[1].response.status = 200
    /\ Len(records) = 2
    /\ \E i \in 1..2 :
          /\ records[i].employeeId = inflight[1].req.body.employeeId
          /\ records[i].exitTime = inflight[1].req.body.exitTime
          /\ records[i].exitLocation # records[i].location

\* the open records of the employee that the query of recordExit returns
VisibleOpen(recs, req, nowT) ==
    {i \in ByEmployee(recs, req.body.employeeId) :
        /\ IsOpen(recs[i])
        /\ \/ ~req.indexed
           \/ /\ recs[i].entryTime >= nowT - 30 * Day
              /\ recs[i].entryTime <= nowT + 30 * Day}

\* C31: a recordExit answered 200 writes the exit fields of exactly one
\* record, an open record of the employee with the greatest entryTime among
\* the open records the query returned, and leaves every other record, open
\* or closed, as it was.
C31_LatestOpenRecordClosed ==
    [][Handled(1, "exit") /\ inflight'[1].response.status = 200
       => LET req == inflight[1].req
              open == VisibleOpen(records, req, now)
          IN  \E i \in open :
                 /\ \A j \in open : records[j].entryTime <= records[i].entryTime
                 /\ records' = [records EXCEPT ![i] =
                                   [@ EXCEPT !.exitTime = req.body.exitTime,
                                             !.exitLocation = req.body.location]]]_vars

\* an exit was answered 200 without the index while the employee had two open
\* records: the later one carries the exit time, the earlier one is still open
C31_EarlierOpenRecordLeftOpen ==
    /\ Answered(1, "exit")
    /\ inflight[1].response.status = 200
    /\ ~inflight[1].req.indexed
    /\ \E i, j \in 1..Len(records) :
          /\ records[i].exitTime = inflight[1].req.body.exitTime
          /\ IsOpen(records[j])
          /\ records[j].employeeId = records[i].employeeId
          /\ records[j].entryTime < records[i].entryTime

\* C32: every record a single-employee report counts was entered within the
\* window the request resolves to, whatever the period: between start and end
\* for a weekly or monthly request and for a daily request with both dates,
\* and not before startDate for a daily request without endDate. A report
\* therefore never counts more days than the employee has records there.
C32_CountedWithinWindow ==
    [][Handled(1, "report") /\ inflight'[1].response.status = 200
       => LET req == inflight[1].req
              report == inflight'[1].reports[1]
              window == ReportWindow(req.body, UtcOffset)
              start == ParseDate(req.body.startDate[1], UtcOffset)
              within == {i \in ByEmployee(records, req.body.employeeId) :
                            IF window # None
                            THEN /\ records[i].entryTime >= window[1].start
                                 /\ records[i].entryTime <= window[1].end
                            ELSE records[i].entryTime >= start}
          IN  report.totalDays <= Cardinality(within)]_vars

\* C33: an entry or an exit that is answered with an error has left the
\* attendance collection as it was, also when the error is a server error
\* raised by a store call that throws after add() or update().
C33_ErrorLeavesStoreUnchanged ==
    [][\A route \in {"manual", "qr", "facial", "exit"} :
          (Handled(1, route) /\ inflight'[1].response.status \notin {200, 201})
          => records' = records]_vars

\* C34: an open session can always be closed: whenever the employee has
\* records without exitTime, an exit whose exitTime is later than the
\* entryTime of each of them is answered 200, so no employee is left with a
\* session that blocks manual entries as a duplicate and that no exit finds.
C34_OpenSessionCanBeClosed ==
    [][Handled(1, "exit")
       => LET req == inflight[1].req
              open == {i \in ByEmployee(records, req.body.employeeId) :
                          IsOpen(records[i])}
          IN  (/\ open # {}
               /\ \A i \in open : req.body.exitTime > records[i].entryTime)
              => inflight'[1].response.status = 200]_vars

\* C35: recordExit changes an attendance record only for a caller who is the
\* employee of the request or an admin: the exit of any other caller leaves
\* the collection as it was.
C35_ExitOnlyBySelfOrAdmin ==
    [][Handled(1, "exit") /\ records' # records
       => LET req == inflight[1].req
          IN  \/ req.user.id = req.body.employeeId
              \/ req.user.role = "admin"]_vars

\* C36: a scan adds a record only when the decoded payload carries a
\* timestamp that is not after now and at most five minutes before it; a
\* payload with an employeeId and no timestamp never adds one.
C36_QrNeedsFreshTimestamp ==
    [][Handled(1, "qr") /\ records' # records
       => LET timestamp == inflight[1].req.body.qrData.timestamp
          IN  /\ timestamp # NoTime
              /\ timestamp <= now
              /\ now - timestamp <= 5 * 60]_vars

\* C37: a late-arrival notification is dispatched only for an entry that
\* ends up in the collection: a manual or QR entry whose handling dispatched
\* one has added its record, whatever it answers.
C37_LateNoticeOnlyForStoredEntry ==
    [][\A route \in {"manual", "qr"} :
          (/\ Handled(1, route)
           /\ \E n \in 1..Len(inflight'[1].outbox) :
                 inflight'[1].outbox[n].subject = "Late Attendance Notification")
          => /\ Len(records') = Len(records) + 1
             /\ \E k \in 1..Len(records') :
                   /\ Without(records', k) = records
                   /\ records'[k].entryTime = inflight[1].req.body.entryTime]_vars

\* C38: in every state, also after overlapping exits, each record with an
\* exitTime has it later than its entryTime, so the aggregate of each
\* employee's records has totalHours of at least zero and no more late days
\* than days.
C38_ExitAfterEntry ==
    /\ \A i \in 1..Len(records) :
          Closed(records[i]) => records[i].exitTime > records[i].entryTime
    /\ \A e \in {"e1", "e2"} :
          LET docs == EmployeeDocs(records, e)
              totals == Totals(records, docs, Len(docs))
          IN  /\ totals.totalHours >= 0
              /\ totals.lateDays <= totals.totalDays

\* two overlapping exits of e1 were both answered 200, the one applied first
\* with the later exit time: the record carries the earlier one, an hour
\* after its entry
C38_OverlappingExitsBothAfterEntry ==
    /\ \A c \in Connections : Answered(c, "exit") /\ inflight[c].response.status = 200
    /\ inflight[1].req.body.exitTime < inflight[2].req.body.exitTime
    /\ \E i \in 1..Len(records) :
          /\ records[i].employeeId = "e1"
          /\ records[i].exitTime = inflight[1].req.body.exitTime
          /\ records[i].exitTime - records[i].entryTime = Hour

\* C39: initAdmin creates an admin only while there is none: the employees
\* collection never holds more than one admin, however the calls overlap, and
\* a call made while an admin exists adds no employee.
C39_AtMostOneAdmin ==
    Cardinality({i \in 1..Len(employees) : employees[i].role = "admin"}) <= 1

====
